---- MODULE Spec2Model ----
(***************************************************************************)
(* Model of the code-analyzer orchestration core (class CodeAnalyzer):     *)
(* the result validator, the sequential run loop with its event stream,    *)
(* the engine plugin registry, and the rule catalog with rule selection.   *)
(*                                                                         *)
(* and of what it works with: the run options, the event emitter, the      *)
(* Workspace, the regex engine and the ESLint engine's rule statuses.      *)
(*                                                                         *)
(* The specifications share the module's variables:                        *)
(*   SpecValidate  - validateEngineRunResults applied to bounded inputs    *)
(*   Spec          - CodeAnalyzer.run over a selection of engines          *)
(*   SpecRegistry  - CodeAnalyzer.addEnginePlugin / createAndAddEngine...  *)
(*   SpecSelect    - CodeAnalyzer.selectRules over the engines' rules      *)
(*   SpecExtract   - extractEngineRunOptions applied to bounded inputs     *)
(*   SpecEvents    - onEvent / emitEvent on the event emitter              *)
(*   SpecWorkspace - Workspace.getExpandedFiles calls that overlap         *)
(*   SpecRegex     - RegexEngine.runRules over bounded file contents       *)
(*   SpecEslint    - calculateRuleStatusesFor over bounded configs         *)
(***************************************************************************)
EXTENDS Integers, Sequences, FiniteSets, TLC

VARIABLES
    \* --- result validator under test ---
    vEngineName,   \* engine whose results are validated
    vViolation,    \* the violation the engine returned
    vResult,       \* "none" before validation, then Ok or the error thrown
    \* --- shared by validator and run ---
    ruleSelection, \* the RuleSelection passed to run()
    \* --- CodeAnalyzer ---
    engines,       \* this.engines: engine name -> engine instance (NoEngine: absent)
    subscribed,    \* engine instances whose emitters listenToEngineEvents listens to
    events,        \* every event emitted on this.eventEmitter, in order
    \* --- one run() call ---
    runOptions,    \* the RunOptions passed to run()
    runStatus,     \* "idle", "running", "returned" or "threw"
    runError,      \* message of the error run() threw, "" if none
    runIdx,        \* position in the selection's engine order of the loop
    inflight,      \* engines whose runRules has been invoked and not settled
    calls,         \* the runRules invocations made, in order
    outcome,       \* per engine, what its runRules did
    runResults,    \* RunResultsImpl: the EngineRunResults added, in order
    \* --- addEnginePlugin() calls ---
    pluginCalls,   \* the addEnginePlugin calls made, in order, with their status
    tasks,         \* createAndAddEngineIfValid invocations awaiting createEngine
    createCalls,   \* the createEngine invocations made, in order
    nextInstance,  \* identity of the next engine instance a plugin constructs
    finished,      \* the createAndAddEngineIfValid invocations that ran to their end
    \* --- one selectRules() call ---
    overrides,     \* this.config: the RuleOverride of each engine name and rule name
    selectors,     \* the selectors passed to selectRules()
    described,     \* per engine, the rule descriptions its describeRules returned
    catalog,       \* per engine, the RuleImpl list getAllRulesFor produced
    selStatus,     \* "idle", "selecting", "returned" or "threw"
    selError,      \* message of the first error that rejected getAllRules, "" if none
    \* --- one extractEngineRunOptions() call ---
    givenOptions,  \* the RunOptions given to extractEngineRunOptions
    engineOptions, \* what the call did: the error thrown or the options returned
    \* --- one RegexEngine.runRules() call ---
    scanFiles,     \* the expanded files of the workspace, passed to execute()
    fileData,      \* per file, the text fs.readFileSync returns
    regexResults,  \* the EngineRunResults runRules returned
    \* --- one Workspace ---
    wsFilesAndFolders, \* the files and folders the Workspace was made of
    wsCache,       \* the cached expansion of the Workspace
    wsCalls,       \* the getExpandedFiles calls made, in order, with what they returned
    wsExpansions,  \* how many times the recursive expansion was started
    \* --- the event emitter of the CodeAnalyzer ---
    listeners,     \* the callbacks registered by onEvent, in order
    emitStack,     \* the emit calls in progress, innermost last
    emitLog,       \* the emit calls that returned, with the callbacks they invoked
    \* --- one calculateRuleStatusesFor() call ---
    fileConfigs,   \* per file to scan, in order, the config ESLint calculates for it
    ruleStatuses   \* the map the call returned

valVars == <<vEngineName, vViolation, vResult>>
coreVars == <<engines, subscribed, events>>
runVars == <<runOptions, runStatus, runError, runIdx, inflight, calls, outcome, runResults>>
regVars == <<pluginCalls, tasks, createCalls, nextInstance, finished>>
selVars == <<overrides, selectors, described, catalog, selStatus, selError>>
optVars == <<givenOptions, engineOptions>>
rxVars == <<scanFiles, fileData, regexResults>>
wsVars == <<wsFilesAndFolders, wsCache, wsCalls, wsExpansions>>
busVars == <<listeners, emitStack, emitLog>>
eslVars == <<fileConfigs, ruleStatuses>>
auxVars == <<optVars, rxVars, wsVars, busVars, eslVars>>
analyzerVars == <<valVars, ruleSelection, coreVars, runVars, regVars, selVars>>
vars == <<valVars, ruleSelection, coreVars, runVars, regVars, selVars, auxVars>>

(***************************************************************************)
(* Bounds                                                                  *)
(***************************************************************************)
\* largest whole line / column / index value drawn for a violation
MaxNum == 2
\* largest number of code locations of a violation under validation
MaxLocs == 2
\* largest number of violations in a batch an engine returns during run()
MaxBatch == 2
\* largest number of events engines emit on their own emitters during run()
MaxEngineEvents == 1
\* largest number of addEnginePlugin calls
MaxCalls == 2
\* largest number of engine names a plugin declares
MaxPluginNames == 2
\* largest number of rule descriptions one describeRules call returns
MaxRules == 2
\* largest number of selectors passed to selectRules
MaxSelectors == 2
\* largest number of engine names declared over all addEnginePlugin calls
\* (a call whose getAvailableEngineNames throws counts as one)
MaxDeclared == 2
\* characters after the first '#' of a sample path start point string
MaxMethodChars == 5
\* characters of the text of the scanned file A.cls
MaxFileChars == 5
\* getExpandedFiles calls made on the Workspace
MaxWsCalls == 4
\* callbacks registered by onEvent
MaxListeners == 3
\* emit calls made
MaxEmits == 3
\* files given to calculateRuleStatusesFor
MaxEslintFiles == 3

(***************************************************************************)
(* JavaScript numbers and optional fields.  A number is whole + half/2,    *)
(* so that Number.isInteger can answer false; Undefined is an absent       *)
(* optional field.                                                         *)
(***************************************************************************)
Num(i) == [def |-> TRUE, whole |-> i, half |-> FALSE]
Frac(i) == [def |-> TRUE, whole |-> i, half |-> TRUE]
Undefined == [def |-> FALSE, whole |-> 0, half |-> FALSE]

\* a <= b on numbers
NumLeq(a, b) == \/ a.whole < b.whole
                \/ a.whole = b.whole /\ (a.half => b.half)
\* a < b on numbers
NumLt(a, b) == ~NumLeq(b, a)
\* Number.isInteger(value)
IsInteger(value) == ~value.half

\* the whole numbers 0..MaxNum and one non-integer, 1.5
LineColValues == {Num(i) : i \in 0..MaxNum} \cup {Frac(1)}
OptLineColValues == LineColValues \cup {Undefined}

(***************************************************************************)
(* File system seen by fs.existsSync / fs.statSync                         *)
(***************************************************************************)
Paths == {"/ws/A.cls", "/ws/dir", "/ws/missing.cls"}
FsKind == [p \in Paths |-> CASE p = "/ws/A.cls" -> "file"
                             [] p = "/ws/dir" -> "dir"
                             [] OTHER -> "missing"]
ExistsSync(p) == FsKind[p] # "missing"
IsFile(p) == FsKind[p] = "file"

(***************************************************************************)
(* Engines, rules and the rule selection                                   *)
(***************************************************************************)
EngineNames == {"e1", "e2", "e3"}
RuleNames == {"r1", "r2"}

\* RuleSelection: the engine names in selection order and, per engine, the
\* names of its selected rules
Range(seq) == {seq[i] : i \in 1..Len(seq)}
SelGetEngineNames(sel) == sel.order
SelGetRulesFor(sel, engineName) ==
    IF \E i \in 1..Len(sel.order) : sel.order[i] = engineName
    THEN sel.rules[engineName] ELSE {}
\* RuleSelection.getRule(engineName, ruleName) throws when the rule is not
\* in the selection under that engine; TRUE when the lookup succeeds
SelGetRule(sel, engineName, ruleName) ==
    ruleName \in SelGetRulesFor(sel, engineName)

(***************************************************************************)
(* Result validator                                                        *)
(***************************************************************************)
Ok == "ok"

\* isIntegerBetween(value, leftBound, rightBound), bounds whole numbers
isIntegerBetween(value, leftBound, rightBound) ==
    /\ NumLeq(Num(leftBound), value)
    /\ NumLeq(value, Num(rightBound))
    /\ IsInteger(value)

\* isValidLineOrColumn accepting 0 as a line or column
isValidLineOrColumn_FromZero(value) ==
    /\ NumLeq(Num(0), value)
    /\ IsInteger(value)

\* isValidLineOrColumn(value): right bound Number.MAX_VALUE is above every
\* value drawn
isValidLineOrColumn(value) ==
    /\ NumLeq(Num(1), value)
    /\ IsInteger(value)

\* validateViolationRuleName looking the rule up under every selected engine
validateViolationRuleName_AnyEngine(violation, engineName, selection) ==
    IF \E e \in Range(SelGetEngineNames(selection)) :
           SelGetRule(selection, e, violation.ruleName)
    THEN Ok
    ELSE "EngineReturnedViolationForUnselectedRule"

validateViolationRuleName(violation, engineName, selection) ==
    IF SelGetRule(selection, engineName, violation.ruleName)
    THEN Ok
    ELSE "EngineReturnedViolationForUnselectedRule"

\* validateViolationPrimaryLocationIndex with codeLocations.length as the
\* right bound
validateViolationPrimaryLocationIndex_UpToLength(violation) ==
    IF ~isIntegerBetween(violation.primaryLocationIndex, 0,
                         Len(violation.codeLocations))
    THEN "EngineReturnedViolationWithInvalidPrimaryLocationIndex"
    ELSE Ok

validateViolationPrimaryLocationIndex(violation) ==
    IF ~isIntegerBetween(violation.primaryLocationIndex, 0,
                         Len(violation.codeLocations) - 1)
    THEN "EngineReturnedViolationWithInvalidPrimaryLocationIndex"
    ELSE Ok

\* the end-column test without its same-line condition
endColumnBeforeStartColumn_AnyLine(codeLocation) ==
    NumLt(codeLocation.endColumn, codeLocation.startColumn)

\* the test of validateViolationCodeLocations that an end column lies before
\* the start column on the same line
endColumnBeforeStartColumn(codeLocation) ==
    /\ codeLocation.endLine = codeLocation.startLine
    /\ NumLt(codeLocation.endColumn, codeLocation.startColumn)

\* body of the loop of validateViolationCodeLocations for one code location
validateCodeLocation(codeLocation) ==
    IF ~ExistsSync(codeLocation.file)
    THEN "EngineReturnedViolationWithCodeLocationFileThatDoesNotExist"
    ELSE IF ~IsFile(codeLocation.file)
    THEN "EngineReturnedViolationWithCodeLocationFileAsFolder"
    ELSE IF ~isValidLineOrColumn(codeLocation.startLine)
    THEN "InvalidLineOrColumn:startLine"
    ELSE IF ~isValidLineOrColumn(codeLocation.startColumn)
    THEN "InvalidLineOrColumn:startColumn"
    ELSE IF codeLocation.endLine # Undefined
    THEN IF ~isValidLineOrColumn(codeLocation.endLine)
         THEN "InvalidLineOrColumn:endLine"
         ELSE IF NumLt(codeLocation.endLine, codeLocation.startLine)
         THEN "EndLineBeforeStartLine"
         ELSE IF codeLocation.endColumn # Undefined
         THEN IF ~isValidLineOrColumn(codeLocation.endColumn)
              THEN "InvalidLineOrColumn:endColumn"
              ELSE IF endColumnBeforeStartColumn(codeLocation)
              THEN "EndColumnBeforeStartColumnOnSameLine"
              ELSE Ok
         ELSE Ok
    ELSE Ok

RECURSIVE validateLocationsFrom(_, _)
validateLocationsFrom(codeLocations, i) ==
    IF i > Len(codeLocations) THEN Ok
    ELSE LET r == validateCodeLocation(codeLocations[i])
         IN IF r # Ok THEN r ELSE validateLocationsFrom(codeLocations, i + 1)

validateViolationCodeLocations(violation) ==
    validateLocationsFrom(violation.codeLocations, 1)

\* the three checks made on one violation, in the order of the loop body of
\* validateEngineRunResults
validateViolation(violation, engineName, selection) ==
    LET r1 == validateViolationRuleName(violation, engineName, selection)
        r2 == validateViolationPrimaryLocationIndex(violation)
        r3 == validateViolationCodeLocations(violation)
    IN IF r1 # Ok THEN r1 ELSE IF r2 # Ok THEN r2 ELSE r3

RECURSIVE validateViolationsFrom(_, _, _, _)
validateViolationsFrom(violations, i, engineName, selection) ==
    IF i > Len(violations) THEN Ok
    ELSE LET r == validateViolation(violations[i], engineName, selection)
         IN IF r # Ok THEN r
            ELSE validateViolationsFrom(violations, i + 1, engineName, selection)

\* validateEngineRunResults: Ok, or the message of the first error thrown
validateEngineRunResults(engineName, apiEngineRunResults, selection) ==
    validateViolationsFrom(apiEngineRunResults.violations, 1, engineName, selection)

(***************************************************************************)
(* SpecValidate: the validator applied to every violation of a bounded set *)
(***************************************************************************)
CodeLocations ==
    [file : Paths, startLine : LineColValues, startColumn : LineColValues,
     endLine : OptLineColValues, endColumn : OptLineColValues]

\* a location every check accepts
SampleLocation ==
    [file |-> "/ws/A.cls", startLine |-> Num(1), startColumn |-> Num(1),
     endLine |-> Undefined, endColumn |-> Undefined]

\* lists of n code locations: any location at one position, the accepted
\* sample location at the others
ListsOfLen(n) ==
    IF n = 0 THEN {<< >>}
    ELSE {[i \in 1..n |-> IF i = p THEN l ELSE SampleLocation] :
              p \in 1..n, l \in CodeLocations}
CodeLocationLists == UNION {ListsOfLen(n) : n \in 0..MaxLocs}

\* -1 .. MaxLocs+1 and the non-integer 0.5
IndexValues == {Num(i) : i \in (-1)..(MaxLocs + 1)} \cup {Frac(0)}

ViolationInputs ==
    [ruleName : RuleNames, primaryLocationIndex : IndexValues,
     codeLocations : CodeLocationLists]

\* selections the validator is tried against: r1 under e1 and r2 under e2;
\* e2 alone with both rules
ValidateSelections ==
    {[order |-> <<"e1", "e2">>,
      rules |-> [e \in EngineNames |-> CASE e = "e1" -> {"r1"}
                                         [] e = "e2" -> {"r2"}
                                         [] OTHER -> {}]],
     [order |-> <<"e2">>,
      rules |-> [e \in EngineNames |-> IF e = "e2" THEN {"r1", "r2"} ELSE {}]]}

NoEngine == 0
NoOutcome == [kind |-> "none", violations |-> << >>, error |-> ""]
NoResults == [engineName |-> "", kind |-> "none", violations |-> << >>, error |-> ""]

\* the validator's variables when no validation is under test
ValIdle ==
    /\ vEngineName = ""
    /\ vViolation = [ruleName |-> "", primaryLocationIndex |-> Num(0),
                     codeLocations |-> << >>]
    /\ vResult = "none"

\* a CodeAnalyzer on which run() has not been called
RunIdle ==
    /\ runOptions = [filesAndFolders |-> << >>, pathStartPoints |-> << >>]
    /\ runStatus = "idle"
    /\ runError = ""
    /\ runIdx = 0
    /\ inflight = {}
    /\ calls = << >>
    /\ outcome = [e \in EngineNames |-> NoOutcome]
    /\ runResults = << >>

\* a freshly constructed CodeAnalyzer
CoreEmpty ==
    /\ engines = [e \in EngineNames |-> NoEngine]
    /\ subscribed = {}
    /\ events = << >>

\* a CodeAnalyzer on which addEnginePlugin has not been called
RegIdle ==
    /\ pluginCalls = << >>
    /\ tasks = {}
    /\ createCalls = << >>
    /\ nextInstance = 1
    /\ finished = {}

\* a RuleOverride that specifies neither a severity nor tags
NoOverride ==
    [severity |-> [def |-> FALSE, value |-> 0], tags |-> [def |-> FALSE, value |-> {}]]
\* describeRules of an engine has not returned
NotDescribed == [done |-> FALSE, rules |-> << >>]
\* getAllRulesFor of an engine has produced nothing (yet)
NoCatalog == [state |-> "none", rules |-> << >>]

\* a CodeAnalyzer on which selectRules has not been called
SelIdle ==
    /\ overrides = [e \in EngineNames |-> [r \in RuleNames |-> NoOverride]]
    /\ selectors = << >>
    /\ described = [e \in EngineNames |-> NotDescribed]
    /\ catalog = [e \in EngineNames |-> NoCatalog]
    /\ selStatus = "idle"
    /\ selError = ""

\* the RunOptions of a workspace without files and without path start points
NoRunOptions == [filesAndFolders |-> << >>, pathStartPoints |-> << >>]
\* extractEngineRunOptions has not been called
NotExtracted == [done |-> FALSE, error |-> "", pathStartPoints |-> << >>]
OptIdle ==
    /\ givenOptions = NoRunOptions
    /\ engineOptions = NotExtracted

\* RegexEngine.runRules has not been called
NotRun == [done |-> FALSE, violations |-> << >>]
RxIdle ==
    /\ scanFiles = << >>
    /\ fileData = << >>
    /\ regexResults = NotRun

\* a Workspace of nothing, never asked for its expanded files
NotExpanded == [state |-> "none", files |-> << >>]
WsIdle ==
    /\ wsFilesAndFolders = << >>
    /\ wsCache = NotExpanded
    /\ wsCalls = << >>
    /\ wsExpansions = 0

\* an event emitter without listeners on which nothing was emitted
BusIdle ==
    /\ listeners = << >>
    /\ emitStack = << >>
    /\ emitLog = << >>

\* calculateRuleStatusesFor has not been called
NotCalculated == [done |-> FALSE, statuses |-> [r \in RuleNames |-> "absent"]]
EslIdle ==
    /\ fileConfigs = << >>
    /\ ruleStatuses = NotCalculated

\* nothing but the four operations of CodeAnalyzer is under test
AuxIdle ==
    /\ OptIdle
    /\ RxIdle
    /\ WsIdle
    /\ BusIdle
    /\ EslIdle

InitValidate ==
    /\ RegIdle
    /\ SelIdle
    /\ AuxIdle
    /\ ruleSelection \in ValidateSelections
    /\ vEngineName \in {"e1", "e2"}
    /\ vViolation \in ViolationInputs
    /\ vResult = "none"
    /\ CoreEmpty
    /\ RunIdle

\* validateEngineRunResults(engineName, {violations: [violation]}, selection)
Validate ==
    /\ vResult = "none"
    /\ vResult' = validateEngineRunResults(vEngineName,
                       [violations |-> <<vViolation>>], ruleSelection)
    /\ UNCHANGED <<vEngineName, vViolation, ruleSelection, coreVars, runVars, regVars, selVars, auxVars>>

NextValidate == Validate

SpecValidate == InitValidate /\ [][NextValidate]_vars

(***************************************************************************)
(* Properties of the validator (checked under SpecValidate)                *)
(***************************************************************************)
Validated == vResult # "none"
vLocs == vViolation.codeLocations
vIndex == vViolation.primaryLocationIndex

\* the rule named by the violation is selected under the validated engine
RuleSelectedForEngine ==
    /\ \E i \in 1..Len(ruleSelection.order) : ruleSelection.order[i] = vEngineName
    /\ vViolation.ruleName \in ruleSelection.rules[vEngineName]
\* the rule named by the violation is selected under some other engine
RuleSelectedForOtherEngine ==
    \E i \in 1..Len(ruleSelection.order) :
        /\ ruleSelection.order[i] # vEngineName
        /\ vViolation.ruleName \in ruleSelection.rules[ruleSelection.order[i]]

\* C5: a violation whose ruleName is not selected under the engine's own
\* name fails validation with the unselected-rule error, also when the rule
\* is selected under another engine; a ruleName selected for the engine
\* never fails this check.
C5_RuleNameMustBeSelectedForEngine ==
    Validated =>
        /\ ~RuleSelectedForEngine
               => vResult = "EngineReturnedViolationForUnselectedRule"
        /\ RuleSelectedForEngine
               => vResult # "EngineReturnedViolationForUnselectedRule"

C5_Witness ==
    /\ Validated
    /\ ~RuleSelectedForEngine
    /\ RuleSelectedForOtherEngine
    /\ vResult = "EngineReturnedViolationForUnselectedRule"

\* primaryLocationIndex is an integer in [0, n-1], n the number of locations
IndexInRange ==
    /\ ~vIndex.half
    /\ 0 <= vIndex.whole
    /\ vIndex.whole <= Len(vLocs) - 1

\* C6: with n code locations, validation fails whenever primaryLocationIndex
\* is not an integer in [0, n-1] (every index when n = 0; -1 and n always),
\* and the index check passes for every integer index in [0, n-1].
C6_PrimaryLocationIndexInRange ==
    Validated =>
        /\ ~IndexInRange => vResult # Ok
        /\ (~IndexInRange /\ RuleSelectedForEngine)
               => vResult = "EngineReturnedViolationWithInvalidPrimaryLocationIndex"
        /\ IndexInRange
               => vResult # "EngineReturnedViolationWithInvalidPrimaryLocationIndex"

C6_Witness ==
    /\ Validated
    /\ Len(vLocs) = MaxLocs
    /\ vIndex = Num(MaxLocs)
    /\ vResult = "EngineReturnedViolationWithInvalidPrimaryLocationIndex"

\* the checks made before the end-line / end-column checks accept location l
StartAccepted(l) ==
    /\ FsKind[l.file] = "file"
    /\ ~l.startLine.half /\ l.startLine.whole >= 1
    /\ ~l.startColumn.half /\ l.startColumn.whole >= 1
\* every location other than the i-th is accepted by the validator
OthersAccepted(i) ==
    \A j \in 1..Len(vLocs) : j # i => validateCodeLocation(vLocs[j]) = Ok
\* l has a whole endColumn >= 1 and a whole endLine >= 1
EndsWhole(l) ==
    /\ l.endLine.def /\ ~l.endLine.half /\ l.endLine.whole >= 1
    /\ l.endColumn.def /\ ~l.endColumn.half /\ l.endColumn.whole >= 1

\* C7: for a location with endLine = startLine and endColumn present,
\* validation fails when endColumn < startColumn and the check passes when
\* endColumn = startColumn; when endLine > startLine an endColumn smaller
\* than startColumn is accepted.
C7_EndColumnOnSameLine ==
    Validated =>
        \A i \in 1..Len(vLocs) :
            LET l == vLocs[i] IN
            /\ (/\ l.endLine.def /\ l.endColumn.def
                 /\ l.endLine = l.startLine
                 /\ NumLt(l.endColumn, l.startColumn))
                   => vResult # Ok
            /\ (/\ StartAccepted(l) /\ EndsWhole(l)
                 /\ l.endLine = l.startLine
                 /\ l.endColumn = l.startColumn
                 /\ RuleSelectedForEngine /\ IndexInRange /\ OthersAccepted(i))
                   => vResult = Ok
            /\ (/\ StartAccepted(l) /\ EndsWhole(l)
                 /\ l.endLine.whole > l.startLine.whole
                 /\ l.endColumn.whole < l.startColumn.whole
                 /\ RuleSelectedForEngine /\ IndexInRange /\ OthersAccepted(i))
                   => vResult = Ok

C7_Witness ==
    /\ vResult = Ok
    /\ \E i \in 1..Len(vLocs) :
           /\ vLocs[i].endLine = Num(2) /\ vLocs[i].startLine = Num(2)
           /\ vLocs[i].endColumn = Num(2) /\ vLocs[i].startColumn = Num(2)

\* the line fields of l break one of the rules: startLine and startColumn
\* integers >= 1; endLine, when present, an integer >= 1 and >= startLine
LineFieldsBad(l) ==
    \/ l.startLine.half \/ l.startLine.whole < 1
    \/ l.startColumn.half \/ l.startColumn.whole < 1
    \/ /\ l.endLine.def
       /\ \/ l.endLine.half \/ l.endLine.whole < 1
          \/ NumLt(l.endLine, l.startLine)

\* C8: validation accepts only if, for every location, startLine and
\* startColumn are integers >= 1 and a present endLine is an integer >= 1
\* and >= startLine; a location with startLine < 1, startColumn < 1,
\* endLine < 1 or endLine < startLine makes validation fail.
C8_LineFieldsValid ==
    Validated =>
        \A i \in 1..Len(vLocs) : LineFieldsBad(vLocs[i]) => vResult # Ok

C8_Witness ==
    /\ vResult = "EndLineBeforeStartLine"
    /\ \E i \in 1..Len(vLocs) :
           /\ vLocs[i].startLine = Num(2)
           /\ vLocs[i].endLine = Num(1)

\* C9 (as claimed): a location whose endColumn is present and is less than
\* 1 or not an integer makes validation fail, whether or not endLine is
\* present.
C9_EndColumnAtLeastOne ==
    Validated =>
        \A i \in 1..Len(vLocs) :
            (/\ vLocs[i].endColumn.def
             /\ \/ vLocs[i].endColumn.half
                \/ vLocs[i].endColumn.whole < 1)
               => vResult # Ok

(***************************************************************************)
(* Events.  Listeners are called synchronously by emit, so the stream a    *)
(* listener observes is the sequence of emitted events.  src tells an      *)
(* event the CodeAnalyzer emits itself ("core") from one it forwards from  *)
(* an engine's emitter ("engine").                                         *)
(***************************************************************************)
EngineProgressEvent(engineName, percentComplete, src) ==
    [type |-> "EngineProgressEvent", engineName |-> engineName,
     percentComplete |-> percentComplete, logLevel |-> "", message |-> << >>,
     results |-> NoResults, src |-> src]
EngineResultsEvent(results) ==
    [type |-> "EngineResultsEvent", engineName |-> results.engineName,
     percentComplete |-> -1, logLevel |-> "", message |-> << >>,
     results |-> results, src |-> "core"]
LogEvent(logLevel, message) ==
    [type |-> "LogEvent", engineName |-> "", percentComplete |-> -1,
     logLevel |-> logLevel, message |-> message, results |-> NoResults,
     src |-> "core"]
EngineLogEvent(engineName, logLevel, message) ==
    [type |-> "EngineLogEvent", engineName |-> engineName, percentComplete |-> -1,
     logLevel |-> logLevel, message |-> message, results |-> NoResults,
     src |-> "engine"]

(***************************************************************************)
(* CodeAnalyzer.run                                                        *)
(***************************************************************************)
\* results.ts: the two kinds of entry of a RunResults
UnexpectedErrorEngineRunResults(engineName, error) ==
    [engineName |-> engineName, kind |-> "unexpectedError",
     violations |-> << >>, error |-> error]
EngineRunResultsImpl(engineName, apiEngineRunResults) ==
    [engineName |-> engineName, kind |-> "results",
     violations |-> apiEngineRunResults.violations, error |-> ""]

\* --- run options: texts are sequences of characters ---
Letters ==
    {"a", "b", "c", "d", "e", "f", "g", "h", "i", "j", "k", "l", "m",
     "n", "o", "p", "q", "r", "s", "t", "u", "v", "w", "x", "y", "z",
     "A", "B", "C", "D", "E", "F", "G", "H", "I", "J", "K", "L", "M",
     "N", "O", "P", "Q", "R", "S", "T", "U", "V", "W", "X", "Y", "Z"}
Digits == {"0", "1", "2", "3", "4", "5", "6", "7", "8", "9"}
Whitespace == {" "}

\* the file system the run options refer to: folders /ws/foo and /ws/foobar,
\* files /ws/foo/A, /ws/foobar/X and /o/B; every other path is missing
DirFoo == <<"/", "w", "s", "/", "f", "o", "o">>
DirFoobar == DirFoo \o <<"b", "a", "r">>
FileInFoo == DirFoo \o <<"/", "A">>
FileInFoobar == DirFoobar \o <<"/", "X">>
FileElsewhere == <<"/", "o", "/", "B">>
MissingInFoo == DirFoo \o <<"/", "M">>
statKind(path) ==
    CASE path \in {DirFoo, DirFoobar} -> "dir"
      [] path \in {FileInFoo, FileInFoobar, FileElsewhere} -> "file"
      [] OTHER -> "missing"

\* str.split(sep) from position i on, current being the part read so far
RECURSIVE splitFrom(_, _, _, _)
splitFrom(str, sep, i, current) ==
    IF i > Len(str) THEN <<current>>
    ELSE IF str[i] = sep
         THEN <<current>> \o splitFrom(str, sep, i + 1, << >>)
         ELSE splitFrom(str, sep, i + 1, Append(current, str[i]))
split(str, sep) == splitFrom(str, sep, 1, << >>)

\* str.startsWith(prefix)
startsWith(str, prefix) ==
    Len(prefix) <= Len(str) /\ SubSeq(str, 1, Len(prefix)) = prefix

\* TRAILING_SPACES_AND_SEMICOLONS_REGEX (/\s+;*$/) matches str from
\* position i to its end
matchesTrailingSpacesAndSemicolons(str, i) ==
    \E k \in i..Len(str) :
        /\ \A j \in i..k : str[j] \in Whitespace
        /\ \A j \in (k + 1)..Len(str) : str[j] = ";"

\* str.replace(TRAILING_SPACES_AND_SEMICOLONS_REGEX, ''): the leftmost match
\* is removed
removeTrailingSpacesAndSemicolons(str) ==
    LET starts == {i \in 1..Len(str) : matchesTrailingSpacesAndSemicolons(str, i)}
    IN IF starts = {} THEN str
       ELSE SubSeq(str, 1, (CHOOSE i \in starts : \A j \in starts : i <= j) - 1)

\* a test that accepts every text that is not empty
isValidMethodName_NonEmpty(methodName) == Len(methodName) >= 1

\* VALID_METHOD_NAME_REGEX.test(methodName), /^[A-Za-z][A-Za-z0-9_]*$/
isValidMethodName(methodName) ==
    /\ Len(methodName) >= 1
    /\ methodName[1] \in Letters
    /\ \A j \in 2..Len(methodName) : methodName[j] \in Letters \cup Digits \cup {"_"}

\* validateFileOrFolder: Ok, or the message of the error thrown (the paths
\* given are absolute, toAbsolutePath leaves them as they are)
validateFileOrFolder(fileOrFolder) ==
    IF statKind(fileOrFolder) = "missing" THEN "FileOrFolderDoesNotExist" ELSE Ok

\* validatePathStartPointFile without its isDirectory test
validatePathStartPointFile_ExistsOnly(file) ==
    IF statKind(file) = "missing" THEN "PathStartPointFileDoesNotExist" ELSE Ok

\* validatePathStartPointFile: Ok, or the message of the error thrown
validatePathStartPointFile(file) ==
    IF statKind(file) = "missing" THEN "PathStartPointFileDoesNotExist"
    ELSE IF statKind(file) = "dir" THEN "PathStartPointWithMethodMustNotBeFolder"
    ELSE Ok

\* extractEnginePathStartPoints: the error thrown (Ok if none) and the
\* engine path start points of one path start point string
extractEnginePathStartPoints(pathStartPointStr) ==
    LET parts == split(pathStartPointStr, "#")
        methodNames == split(removeTrailingSpacesAndSemicolons(parts[2]), ";")
    IN IF Len(parts) = 1
       THEN [error |-> validateFileOrFolder(pathStartPointStr),
             points |-> <<[file |-> pathStartPointStr, methodName |-> << >>]>>]
       ELSE IF Len(parts) > 2
       THEN [error |-> "InvalidPathStartPoint", points |-> << >>]
       ELSE IF validatePathStartPointFile(parts[1]) # Ok
       THEN [error |-> validatePathStartPointFile(parts[1]), points |-> << >>]
       ELSE IF \E k \in 1..Len(methodNames) : ~isValidMethodName(methodNames[k])
       THEN [error |-> "InvalidPathStartPoint", points |-> << >>]
       ELSE [error |-> Ok,
             points |-> [k \in 1..Len(methodNames) |->
                           [file |-> parts[1], methodName |-> methodNames[k]]]]

\* pathStartPoints.flatMap(extractEnginePathStartPoints) from position i on:
\* the first error thrown (Ok if none) and the points gathered
RECURSIVE flatMapStartPointsFrom(_, _)
flatMapStartPointsFrom(pathStartPoints, i) ==
    IF i > Len(pathStartPoints) THEN [error |-> Ok, points |-> << >>]
    ELSE LET head == extractEnginePathStartPoints(pathStartPoints[i])
             rest == flatMapStartPointsFrom(pathStartPoints, i + 1)
         IN IF head.error # Ok THEN [error |-> head.error, points |-> << >>]
            ELSE [error |-> rest.error, points |-> head.points \o rest.points]

\* fileIsUnderneath: the file is one of the files or folders, or its text
\* starts with the text of one that is a folder
fileIsUnderneath(file, filesOrFolders) ==
    \E k \in 1..Len(filesOrFolders) :
        \/ filesOrFolders[k] = file
        \/ statKind(filesOrFolders[k]) = "dir" /\ startsWith(file, filesOrFolders[k])

\* validatePathStartPointsAreInsideWorkspace: Ok, or the message of the error
validatePathStartPointsAreInsideWorkspace(points, filesAndFolders) ==
    IF \E k \in 1..Len(points) : ~fileIsUnderneath(points[k].file, filesAndFolders)
    THEN "PathStartPointMustBeInsideWorkspace"
    ELSE Ok

\* extractEngineRunOptions: the error thrown (Ok if none) and the path start
\* points of the engine run options returned
engineRunOptionsOf(options) ==
    IF Len(options.filesAndFolders) = 0
    THEN [error |-> "AtLeastOneFileOrFolderMustBeIncluded", pathStartPoints |-> << >>]
    ELSE LET extracted == flatMapStartPointsFrom(options.pathStartPoints, 1)
             inside == validatePathStartPointsAreInsideWorkspace(
                           extracted.points, options.filesAndFolders)
         IN IF extracted.error # Ok
            THEN [error |-> extracted.error, pathStartPoints |-> << >>]
            ELSE IF inside # Ok
            THEN [error |-> inside, pathStartPoints |-> << >>]
            ELSE [error |-> Ok, pathStartPoints |-> extracted.points]

\* extractEngineRunOptions: Ok, or the message of the error thrown
extractEngineRunOptions(options) == engineRunOptionsOf(options).error

\* rulesToRun taken from the whole selection
rulesToRun_WholeSelection(selection, engineName) ==
    UNION {selection.rules[e] : e \in Range(SelGetEngineNames(selection))}

\* runEngineAndValidateResults, first line: the rule names passed to runRules
rulesToRun(selection, engineName) == SelGetRulesFor(selection, engineName)

\* runEngineAndValidateResults without its try / catch
engineRunResultsOf_NoCatch(engineName, out, selection) ==
    IF out.kind = "threw"
    THEN [threw |-> TRUE, error |-> out.error, results |-> NoResults]
    ELSE LET api == [violations |-> out.violations]
             v == validateEngineRunResults(engineName, api, selection)
         IN IF v # Ok
            THEN [threw |-> TRUE, error |-> v, results |-> NoResults]
            ELSE [threw |-> FALSE, error |-> "",
                  results |-> EngineRunResultsImpl(engineName, api)]

\* runEngineAndValidateResults dropping the violations that fail validation
engineRunResultsOf_DropInvalid(engineName, out, selection) ==
    IF out.kind = "threw"
    THEN [threw |-> FALSE, error |-> "",
          results |-> UnexpectedErrorEngineRunResults(engineName, out.error)]
    ELSE LET IsValid(v) == validateViolation(v, engineName, selection) = Ok
             kept == [violations |-> SelectSeq(out.violations, IsValid)]
         IN [threw |-> FALSE, error |-> "",
             results |-> EngineRunResultsImpl(engineName, kept)]

\* runEngineAndValidateResults from the catch clause on, given what the
\* awaited runRules did: threw says that the method throws
engineRunResultsOf(engineName, out, selection) ==
    IF out.kind = "threw"
    THEN [threw |-> FALSE, error |-> "",
          results |-> UnexpectedErrorEngineRunResults(engineName, out.error)]
    ELSE LET api == [violations |-> out.violations]
             v == validateEngineRunResults(engineName, api, selection)
         IN IF v # Ok
            THEN [threw |-> TRUE, error |-> v, results |-> NoResults]
            ELSE [threw |-> FALSE, error |-> "",
                  results |-> EngineRunResultsImpl(engineName, api)]

\* the results event emitted before the 100% progress event
eventsAfterEngine_ResultsFirst(engineName, results) ==
    <<EngineResultsEvent(results), EngineProgressEvent(engineName, 100, "core")>>

\* the events run() emits for an engine once its results are in hand
eventsAfterEngine(engineName, results) ==
    <<EngineProgressEvent(engineName, 100, "core"), EngineResultsEvent(results)>>

\* run() emitting no 0% progress event before it calls runRules
eventsBeforeEngine_NoProgress(engineName, selection) ==
    <<LogEvent("Debug", <<"RunningEngineWithRules", engineName>>)>>

\* the events run() emits for an engine up to the call of its runRules
eventsBeforeEngine(engineName, selection) ==
    <<EngineProgressEvent(engineName, 0, "core"),
      LogEvent("Debug", <<"RunningEngineWithRules", engineName>>)>>

\* the for loop of run() from its i-th iteration up to the next await (the
\* call of the engine's runRules), or to the return when no engine is left;
\* evs and fl are the events emitted and the engines in flight so far
LoopFrom(evs, i, fl) ==
    LET names == SelGetEngineNames(ruleSelection) IN
    IF i > Len(names)
    THEN /\ runStatus' = "returned"
         /\ events' = evs
         /\ inflight' = fl
         /\ runIdx' = i
         /\ UNCHANGED calls
    ELSE LET evs2 == evs \o eventsBeforeEngine(names[i], ruleSelection) IN
         /\ runStatus' = "running"
         /\ events' = evs2
         /\ calls' = Append(calls, [engineName |-> names[i],
                                    ruleNames |-> rulesToRun(ruleSelection, names[i]),
                                    at |-> Len(evs2)])
         /\ inflight' = fl \cup {names[i]}
         /\ runIdx' = i

\* run(ruleSelection, runOptions) up to its first await
RunBegin ==
    /\ runStatus = "idle"
    /\ LET v == extractEngineRunOptions(runOptions) IN
       IF v # Ok
       THEN /\ runStatus' = "threw"
            /\ runError' = v
            /\ UNCHANGED <<events, inflight, runIdx, calls>>
       ELSE /\ LoopFrom(Append(events, LogEvent("Debug", <<"RunningWithRunOptions">>)),
                        1, inflight)
            /\ UNCHANGED runError
    /\ UNCHANGED <<valVars, ruleSelection, engines, subscribed, runOptions,
                   outcome, runResults, regVars, selVars, auxVars>>

\* violations engines return during run()
GoodViolation(ruleName) ==
    [ruleName |-> ruleName, primaryLocationIndex |-> Num(0),
     codeLocations |-> <<SampleLocation>>]
BadViolation(ruleName) ==
    [ruleName |-> ruleName, primaryLocationIndex |-> Num(1),
     codeLocations |-> <<SampleLocation>>]
SampleViolations == {GoodViolation("r1"), BadViolation("r1")}
SampleBatches ==
    UNION {[1..n -> SampleViolations] : n \in 0..MaxBatch}
Outcomes ==
    {[kind |-> "threw", violations |-> << >>, error |-> "RunRulesError"]}
    \cup {[kind |-> "returned", violations |-> b, error |-> ""] : b \in SampleBatches}

\* the awaited runRules of the engine of the current iteration settles (it
\* throws, or returns a batch of violations) and run() goes on to its next
\* await or to its end
RunRulesSettles ==
    /\ runStatus = "running"
    /\ \E e \in inflight, out \in Outcomes :
        /\ e = SelGetEngineNames(ruleSelection)[runIdx]
        /\ outcome' = [outcome EXCEPT ![e] = out]
        /\ LET r == engineRunResultsOf(e, out, ruleSelection) IN
           IF r.threw
           THEN /\ runStatus' = "threw"
                /\ runError' = r.error
                /\ inflight' = inflight \ {e}
                /\ UNCHANGED <<events, runIdx, calls, runResults>>
           ELSE /\ runResults' = Append(runResults, r.results)
                /\ LoopFrom(events \o eventsAfterEngine(e, r.results),
                            runIdx + 1, inflight \ {e})
                /\ UNCHANGED runError
    /\ UNCHANGED <<valVars, ruleSelection, engines, subscribed, runOptions, regVars, selVars, auxVars>>

\* number of events forwarded from engines' emitters so far
EngineEventCount == Cardinality({i \in 1..Len(events) : events[i].src = "engine"})

\* an engine whose runRules is in flight emits a log or progress event on
\* its own emitter; the callbacks of listenToEngineEvents forward it
EngineEmitsEvent ==
    /\ EngineEventCount < MaxEngineEvents
    /\ \E e \in inflight :
        /\ engines[e] \in subscribed
        /\ \E ev \in {EngineProgressEvent(e, 50, "engine"),
                      EngineProgressEvent(e, 100, "engine"),
                      EngineLogEvent(e, "Info", <<"EngineMessage">>)} :
               events' = Append(events, ev)
    /\ UNCHANGED <<valVars, ruleSelection, engines, subscribed, runVars, regVars, selVars, auxVars>>

\* the rules each registered engine describes
Catalog ==
    [e \in EngineNames |-> CASE e = "e1" -> {"r1", "r2"}
                            [] e = "e2" -> {"r1"}
                            [] OTHER -> {"r2"}]

\* selections: engines in any order, each with a non-empty set of its rules
Orders ==
    UNION {{o \in [1..n -> EngineNames] :
                \A i, j \in 1..n : i # j => o[i] # o[j]} :
           n \in 0..Cardinality(EngineNames)}
SelectionsInOrder(o) ==
    {[order |-> o, rules |-> r] :
        r \in {f \in [EngineNames -> SUBSET RuleNames] :
                  \A e \in EngineNames :
                      /\ f[e] \subseteq Catalog[e]
                      /\ f[e] = {} <=> e \notin Range(o)}}
Selections == UNION {SelectionsInOrder(o) : o \in Orders}

\* path start point strings: a file with a method, two '#', a method name
\* starting with a digit, a missing file, a file of the sibling folder
\* /ws/foobar, a file outside every folder of the workspace
SampleStartPoints ==
    {FileInFoo \o <<"#", "m">>,
     FileInFoo \o <<"#", "m", "#", "n">>,
     FileInFoo \o <<"#", "1", "m">>,
     MissingInFoo,
     FileInFoobar,
     FileElsewhere}

\* the run options passed to run(): a workspace without files and folders,
\* and the workspace of folder /ws/foo with no or one path start point
SampleRunOptions ==
    {[filesAndFolders |-> << >>, pathStartPoints |-> << >>],
     [filesAndFolders |-> <<DirFoo>>, pathStartPoints |-> << >>]}
    \cup {[filesAndFolders |-> <<DirFoo>>, pathStartPoints |-> <<str>>] :
             str \in SampleStartPoints}

Init ==
    /\ ValIdle
    /\ pluginCalls = << >>
    /\ tasks = {}
    /\ createCalls = << >>
    /\ nextInstance = 4
    /\ finished = {}
    /\ SelIdle
    /\ AuxIdle
    /\ ruleSelection \in Selections
    /\ engines = [e \in EngineNames |-> CASE e = "e1" -> 1 [] e = "e2" -> 2 [] OTHER -> 3]
    /\ subscribed = {1, 2, 3}
    /\ events = << >>
    /\ runOptions \in SampleRunOptions
    /\ runStatus = "idle"
    /\ runError = ""
    /\ runIdx = 0
    /\ inflight = {}
    /\ calls = << >>
    /\ outcome = [e \in EngineNames |-> NoOutcome]
    /\ runResults = << >>

Next ==
    \/ RunBegin
    \/ RunRulesSettles
    \/ EngineEmitsEvent

Spec == Init /\ [][Next]_vars

(***************************************************************************)
(* Properties of run() (checked under Spec)                                *)
(***************************************************************************)
selNames == ruleSelection.order

IsCoreProgress(ev, engineName, percent) ==
    /\ ev.type = "EngineProgressEvent"
    /\ ev.src = "core"
    /\ ev.engineName = engineName
    /\ ev.percentComplete = percent
IsResultsOf(ev, engineName) ==
    /\ ev.type = "EngineResultsEvent"
    /\ ev.engineName = engineName

\* the batch engine e returned fails validation
ReturnedInvalid(e) ==
    /\ outcome[e].kind = "returned"
    /\ validateEngineRunResults(e, [violations |-> outcome[e].violations],
                                ruleSelection) # Ok

\* C1: when engines' runRules throw and every other engine returns valid
\* results, run() does not throw; it returns one entry per selected engine
\* in selection order, an UnexpectedErrorEngineRunResults carrying the
\* thrown error for an engine that threw and the engine's own results for
\* the others, and the engines after a throwing one are still invoked.
C1_ThrowingEngineIsIsolated ==
    /\ runStatus = "threw" =>
          \/ extractEngineRunOptions(runOptions) # Ok
          \/ \E e \in Range(selNames) : ReturnedInvalid(e)
    /\ runStatus = "returned" =>
          /\ Len(runResults) = Len(selNames)
          /\ Len(calls) = Len(selNames)
          /\ \A i \in 1..Len(selNames) :
                LET e == selNames[i] IN
                /\ calls[i].engineName = e
                /\ runResults[i].engineName = e
                /\ outcome[e].kind \in {"threw", "returned"}
                /\ outcome[e].kind = "threw" =>
                      /\ runResults[i].kind = "unexpectedError"
                      /\ runResults[i].error = outcome[e].error
                /\ outcome[e].kind = "returned" =>
                      /\ runResults[i].kind = "results"
                      /\ runResults[i].violations = outcome[e].violations

C1_Witness ==
    /\ runStatus = "returned"
    /\ Len(selNames) = 3
    /\ outcome[selNames[1]].kind = "returned"
    /\ outcome[selNames[1]].violations # << >>
    /\ outcome[selNames[2]].kind = "threw"
    /\ outcome[selNames[3]].kind = "returned"
    /\ runResults[2].kind = "unexpectedError"

\* C2: during run() at most one runRules is in flight; engines are invoked
\* at most once each, in the selection's order (every one of them when
\* run() returns), the next one only after the previous engine's validated
\* results were emitted in a results event; each engine is passed exactly
\* the names of the rules selected for it.
C2_EnginesRunOneAtATime ==
    /\ Cardinality(inflight) <= 1
    /\ Len(calls) <= Len(selNames)
    /\ inflight # {} => inflight = {selNames[Len(calls)]}
    /\ runStatus = "returned" => Len(calls) = Len(selNames) /\ inflight = {}
    /\ \A k \in 1..Len(calls) :
          /\ calls[k].engineName = selNames[k]
          /\ calls[k].ruleNames = ruleSelection.rules[selNames[k]]
    /\ \A k \in 2..Len(calls) :
          \E j \in 1..calls[k].at :
             /\ IsResultsOf(events[j], selNames[k-1])
             /\ events[j].results = runResults[k-1]
             /\ ~ReturnedInvalid(selNames[k-1])

C2_Witness ==
    /\ Len(calls) = 3
    /\ inflight = {selNames[3]}
    /\ calls[1].ruleNames # calls[2].ruleNames
    /\ calls[3].ruleNames = {"r2"}

C4_InvalidBatchIsDiscardedWhole ==
    \A e \in EngineNames :
        ReturnedInvalid(e) =>
            /\ runStatus = "threw"
            /\ runError = validateEngineRunResults(e,
                              [violations |-> outcome[e].violations], ruleSelection)
            /\ \A i \in 1..Len(runResults) : runResults[i].engineName # e
            /\ \A j \in 1..Len(events) : ~IsResultsOf(events[j], e)

C4_Witness ==
    /\ runStatus = "threw"
    /\ \E e \in EngineNames :
          /\ ReturnedInvalid(e)
          /\ Len(outcome[e].violations) = 2
          /\ validateViolation(outcome[e].violations[1], e, ruleSelection) = Ok
          /\ Len(runResults) = 1

\* C28: when the results engine k returned fail validation, run() throws
\* (the caller gets no RunResults, whatever was collected from the engines
\* before k); k's 0% progress event of run() has been emitted, its 100%
\* progress event and its results event have not; engine k is the last one
\* invoked, and no progress or results event names an engine after k.
C28_ValidationFailureAbortsRun ==
    \A k \in 1..Len(selNames) :
        ReturnedInvalid(selNames[k]) =>
            /\ runStatus = "threw"
            /\ runStatus # "returned"
            /\ Len(runResults) = k - 1
            /\ Len(calls) = k
            /\ inflight = {}
            /\ \E j \in 1..Len(events) : IsCoreProgress(events[j], selNames[k], 0)
            /\ \A j \in 1..Len(events) :
                  /\ ~IsCoreProgress(events[j], selNames[k], 100)
                  /\ ~IsResultsOf(events[j], selNames[k])
                  /\ \A l \in (k + 1)..Len(selNames) :
                        events[j].engineName # selNames[l]

C28_Witness ==
    /\ runStatus = "threw"
    /\ Len(selNames) = 3
    /\ ReturnedInvalid(selNames[2])
    /\ runResults # << >>
    /\ runResults[1].engineName = selNames[1]
    /\ Len(calls) = 2
    /\ \E j \in 1..Len(events) : IsCoreProgress(events[j], selNames[2], 0)

(***************************************************************************)
(* CodeAnalyzer.addEnginePlugin and createAndAddEngineIfValid              *)
(***************************************************************************)
\* engApi.ENGINE_API_VERSION, the API version the CodeAnalyzer supports
ENGINE_API_VERSION == 1

\* plugins: an API version, the engine names getAvailableEngineNames returns
\* (at least one; a plugin may name an engine twice), or
\* getAvailableEngineNames throwing
PluginEngineNames == {"e1", "e2"}
PluginNameLists == UNION {[1..n -> PluginEngineNames] : n \in 1..MaxPluginNames}
Plugins ==
    [apiVersion : {ENGINE_API_VERSION, ENGINE_API_VERSION + 1},
     names : PluginNameLists,
     namesThrow : {FALSE}]
    \cup
    [apiVersion : {ENGINE_API_VERSION, ENGINE_API_VERSION + 1},
     names : {<< >>},
     namesThrow : {TRUE}]

\* createAndAddEngineIfValid without the test this.engines.has(engineName)
createAndAddEngineIfValidBegin_NoHasCheck(engs, engineName, throwsNow) ==
    IF throwsNow THEN "threw" ELSE "awaiting"

\* createAndAddEngineIfValid up to its await: "duplicate" when the name is
\* already registered, "threw" when createEngine throws at once, otherwise
\* "awaiting" the engine that createEngine promised
createAndAddEngineIfValidBegin(engs, engineName, throwsNow) ==
    IF engs[engineName] # NoEngine THEN "duplicate"
    ELSE IF throwsNow THEN "threw"
    ELSE "awaiting"

\* createAndAddEngineIfValid logging nothing before its await
logsOfBegin_Silent(names, kinds, i) == << >>

\* the log events the invocations for names[i..] emit before their await
RECURSIVE logsOfBegin(_, _, _)
logsOfBegin(names, kinds, i) ==
    IF i > Len(names) THEN << >>
    ELSE (CASE kinds[i] = "duplicate" ->
                 <<LogEvent("Error", <<"DuplicateEngine", names[i]>>)>>
            [] kinds[i] = "threw" ->
                 <<LogEvent("Error", <<"PluginErrorFromCreateEngine", names[i]>>)>>
            [] OTHER -> << >>)
         \o logsOfBegin(names, kinds, i + 1)

\* the createEngine invocations made for names[i..] by call c
RECURSIVE createCallsOfBegin(_, _, _, _)
createCallsOfBegin(c, names, kinds, i) ==
    IF i > Len(names) THEN << >>
    ELSE (IF kinds[i] = "duplicate" THEN << >>
          ELSE <<[call |-> c, engineName |-> names[i]]>>)
         \o createCallsOfBegin(c, names, kinds, i + 1)

\* number of engine names declared by the plugins of the calls made so far,
\* a call whose getAvailableEngineNames threw counting as one
RECURSIVE DeclaredIn(_, _)
DeclaredIn(cs, i) ==
    IF i > Len(cs) THEN 0
    ELSE (IF cs[i].plugin.namesThrow THEN 1 ELSE Len(cs[i].plugin.names))
         + DeclaredIn(cs, i + 1)
DeclaredSoFar == DeclaredIn(pluginCalls, 1)

\* the warning addEnginePlugin logs for a plugin of a later API version
versionWarning(apiVersion) ==
    IF apiVersion > ENGINE_API_VERSION
    THEN <<LogEvent("Warn", <<"EngineFromFutureApiDetected">>)>>
    ELSE << >>

\* the invocations for the names of call c that ran to their end before any
\* await: the name was registered, or createEngine threw at once
finishedAtBegin(c, names, kinds) ==
    {[call |-> c, engineName |-> names[i], result |-> kinds[i],
      reported |-> "", instance |-> NoEngine] :
        i \in {j \in 1..Len(names) : kinds[j] # "awaiting"}}

\* addEnginePlugin(enginePlugin) up to its await of Promise.all: the version
\* check (whose message reads getAvailableEngineNames), then every
\* createAndAddEngineIfValid invocation up to its await
AddEnginePlugin ==
    /\ Len(pluginCalls) < MaxCalls
    /\ \E plugin \in Plugins :
       LET c == Len(pluginCalls) + 1 IN
       IF plugin.namesThrow
       THEN /\ DeclaredSoFar + 1 <= MaxDeclared
            /\ pluginCalls' = Append(pluginCalls,
                   [plugin |-> plugin, status |-> "rejected",
                    enginesAtStart |-> engines, eventsAtStart |-> Len(events),
                    awaitedAtStart |-> {t.engineName : t \in tasks}])
            /\ UNCHANGED <<events, tasks, createCalls, finished>>
       ELSE \E throwsNow \in [1..Len(plugin.names) -> BOOLEAN] :
            LET names == plugin.names
                kinds == [i \in 1..Len(names) |->
                            createAndAddEngineIfValidBegin(engines, names[i], throwsNow[i])]
            IN /\ \A i \in 1..Len(names) :
                     kinds[i] = "duplicate" => ~throwsNow[i]
               /\ DeclaredSoFar + Len(names) <= MaxDeclared
               /\ events' = events \o versionWarning(plugin.apiVersion)
                                   \o logsOfBegin(names, kinds, 1)
               /\ tasks' = tasks \cup
                     {[call |-> c, pos |-> i, engineName |-> names[i]] :
                         i \in {j \in 1..Len(names) : kinds[j] = "awaiting"}}
               /\ finished' = finished \cup finishedAtBegin(c, names, kinds)
               /\ createCalls' = createCalls \o createCallsOfBegin(c, names, kinds, 1)
               /\ pluginCalls' = Append(pluginCalls,
                     [plugin |-> plugin, status |-> "pending",
                      enginesAtStart |-> engines, eventsAtStart |-> Len(events),
                      awaitedAtStart |-> {t.engineName : t \in tasks}])
    /\ UNCHANGED <<valVars, ruleSelection, engines, subscribed, runVars, nextInstance,
                   selVars, auxVars>>

\* createAndAddEngineIfValid after its await without the comparison of
\* engineName with engine.getName()
createAndAddEngineIfValidEnd_NoNameCheck(engineName, rejects, reportedName) ==
    IF rejects THEN "rejected" ELSE "added"

\* createAndAddEngineIfValid after its await: the promise of createEngine
\* rejected, or the engine reports another name than the one requested, or
\* the engine is added
createAndAddEngineIfValidEnd(engineName, rejects, reportedName) ==
    IF rejects THEN "rejected"
    ELSE IF engineName # reportedName THEN "otherName"
    ELSE "added"

\* the createEngine awaited by one createAndAddEngineIfValid invocation
\* settles (it rejects, or yields an engine whose getName() is reportedName)
\* and the invocation runs to its end
CreateEngineSettles ==
    \E t \in tasks, rejects \in BOOLEAN, reportedName \in PluginEngineNames :
        LET result == createAndAddEngineIfValidEnd(t.engineName, rejects, reportedName)
        IN
        /\ rejects => reportedName = t.engineName
        /\ tasks' = tasks \ {t}
        /\ finished' = finished \cup
              {[call |-> t.call, engineName |-> t.engineName, result |-> result,
                reported |-> IF rejects THEN "" ELSE reportedName,
                instance |-> IF rejects THEN NoEngine ELSE nextInstance]}
        /\ CASE result = "rejected" ->
                 /\ events' = Append(events,
                        LogEvent("Error", <<"PluginErrorFromCreateEngine", t.engineName>>))
                 /\ UNCHANGED <<engines, subscribed, nextInstance>>
             [] result = "otherName" ->
                 /\ events' = Append(events,
                        LogEvent("Error", <<"EngineNameContradiction", t.engineName,
                                            reportedName>>))
                 /\ nextInstance' = nextInstance + 1
                 /\ UNCHANGED <<engines, subscribed>>
             [] OTHER ->
                 /\ engines' = [engines EXCEPT ![t.engineName] = nextInstance]
                 /\ events' = Append(events,
                        LogEvent("Debug", <<"EngineAdded", t.engineName>>))
                 /\ subscribed' = subscribed \cup {nextInstance}
                 /\ nextInstance' = nextInstance + 1
        /\ UNCHANGED <<valVars, ruleSelection, runVars, pluginCalls, createCalls,
                       selVars, auxVars>>

\* Promise.all(promises) of call c resolving although invocations of the
\* call are still awaiting their createEngine
allSettled_NoWait(ts, c) == TRUE

\* Promise.all(promises) of call c: none of the call's
\* createAndAddEngineIfValid invocations is still awaiting its createEngine
allSettled(ts, c) == \A t \in ts : t.call # c

\* the Promise.all awaited by addEnginePlugin is fulfilled and the call's
\* promise resolves
AddEnginePluginSettles ==
    \E c \in 1..Len(pluginCalls) :
        /\ pluginCalls[c].status = "pending"
        /\ allSettled(tasks, c)
        /\ pluginCalls' = [pluginCalls EXCEPT ![c].status = "resolved"]
        /\ UNCHANGED <<valVars, ruleSelection, coreVars, runVars, tasks,
                       createCalls, nextInstance, finished, selVars, auxVars>>

InitRegistry ==
    /\ ValIdle
    /\ ruleSelection = [order |-> << >>, rules |-> [e \in EngineNames |-> {}]]
    /\ CoreEmpty
    /\ RunIdle
    /\ RegIdle
    /\ SelIdle
    /\ AuxIdle

NextRegistry ==
    \/ AddEnginePlugin
    \/ CreateEngineSettles
    \/ AddEnginePluginSettles

SpecRegistry == InitRegistry /\ [][NextRegistry]_vars

(***************************************************************************)
(* Properties of the registry (checked under SpecRegistry)                 *)
(***************************************************************************)
\* call c declares engine name n, which was registered when c was made
DeclaresRegistered(c, n) ==
    /\ n \in Range(pluginCalls[c].plugin.names)
    /\ pluginCalls[c].enginesAtStart[n] # NoEngine

\* C10: when addEnginePlugin is called with a plugin declaring an engine
\* name that is already registered, the call does not throw, an error log
\* event is emitted for the name, the call makes no createEngine invocation
\* for it, and the name stays bound to the engine instance it had (no
\* creation of that name by an earlier, overlapping call being awaited).
C10_DuplicateEngineNameIsSkipped ==
    \A c \in 1..Len(pluginCalls) : \A n \in EngineNames :
        DeclaresRegistered(c, n) =>
            /\ pluginCalls[c].status # "rejected"
            /\ \E j \in (pluginCalls[c].eventsAtStart + 1)..Len(events) :
                  events[j] = LogEvent("Error", <<"DuplicateEngine", n>>)
            /\ \A k \in 1..Len(createCalls) :
                  ~(createCalls[k].call = c /\ createCalls[k].engineName = n)
            /\ \A t \in tasks : ~(t.call = c /\ t.engineName = n)
            /\ n \notin pluginCalls[c].awaitedAtStart
                  => engines[n] = pluginCalls[c].enginesAtStart[n]

C10_Witness ==
    \E c \in 1..Len(pluginCalls) : \E n \in EngineNames :
        /\ pluginCalls[c].status = "resolved"
        /\ DeclaresRegistered(c, n)
        /\ n \notin pluginCalls[c].awaitedAtStart
        /\ engines[n] = pluginCalls[c].enginesAtStart[n]
        /\ \E j \in (pluginCalls[c].eventsAtStart + 1)..Len(events) :
              events[j] = LogEvent("Error", <<"DuplicateEngine", n>>)

\* C11: under every interleaving of createEngine completions, once an
\* engine name is bound to an engine instance the binding is never replaced
\* by a different instance.
C11_BindingNeverReplaced ==
    [][\A n \in EngineNames :
          engines[n] # NoEngine => engines'[n] = engines[n]]_vars

\* an invocation in which createEngine threw or its promise rejected
CreateFailed(f) == f.result \in {"threw", "rejected"}

\* the createEngine invocations made so far for engine name n
createCallsFor(n) == {k \in 1..Len(createCalls) : createCalls[k].engineName = n}

\* the engine names the plugin of call c declares
DeclaredBy(c) == Range(pluginCalls[c].plugin.names)

\* C12: when createEngine throws or rejects for one engine name,
\* addEnginePlugin does not throw, an error log event naming the engine is
\* emitted, the name is not registered (no other createEngine invocation
\* having been made for it), and the other names the plugin declares and the
\* engines registered before are handled as without the failure: every
\* other declared name is still awaited or has run to its own end, an added
\* one is bound and subscribed, and earlier bindings are kept.
C12_CreateEngineFailureIsIsolated ==
    \A f \in finished : CreateFailed(f) =>
        LET c == f.call IN
        /\ pluginCalls[c].status # "rejected"
        /\ \E j \in (pluginCalls[c].eventsAtStart + 1)..Len(events) :
              events[j] = LogEvent("Error", <<"PluginErrorFromCreateEngine", f.engineName>>)
        /\ Cardinality(createCallsFor(f.engineName)) = 1
              => engines[f.engineName] = NoEngine
        /\ \A m \in DeclaredBy(c) \ {f.engineName} :
              /\ \/ \E t \in tasks : t.call = c /\ t.engineName = m
                 \/ \E g \in finished : g.call = c /\ g.engineName = m
              /\ \A g \in finished :
                    (/\ g.call = c
                     /\ g.engineName = m
                     /\ g.result = "added"
                     /\ Cardinality(createCallsFor(m)) = 1)
                    => engines[m] = g.instance /\ g.instance \in subscribed
        /\ \A m \in EngineNames :
              (/\ pluginCalls[c].enginesAtStart[m] # NoEngine
               /\ m \notin pluginCalls[c].awaitedAtStart)
              => engines[m] = pluginCalls[c].enginesAtStart[m]

C12_Witness ==
    \E f \in finished : \E g \in finished :
        /\ f.result = "rejected"
        /\ g.call = f.call
        /\ g.engineName # f.engineName
        /\ g.result = "added"
        /\ pluginCalls[f.call].status = "resolved"
        /\ engines[f.engineName] = NoEngine
        /\ engines[g.engineName] = g.instance
        /\ g.instance \in subscribed

\* an invocation whose createEngine yielded an engine that reports another
\* name than the one requested
NameContradicted(f) == f.instance # NoEngine /\ f.reported # f.engineName

\* C13: when the engine createEngine returns reports a getName() different
\* from the requested name, an error log event is emitted, the engine is
\* registered under neither the requested name nor the name it reports, and
\* the CodeAnalyzer does not listen to its events.
C13_NameContradictionIsSkipped ==
    \A f \in finished : NameContradicted(f) =>
        /\ \E j \in (pluginCalls[f.call].eventsAtStart + 1)..Len(events) :
              events[j] = LogEvent("Error", <<"EngineNameContradiction",
                                              f.engineName, f.reported>>)
        /\ engines[f.engineName] # f.instance
        /\ engines[f.reported] # f.instance
        /\ f.instance \notin subscribed

C13_Witness ==
    \E f \in finished :
        /\ NameContradicted(f)
        /\ pluginCalls[f.call].status = "resolved"
        /\ engines[f.engineName] = NoEngine
        /\ engines[f.reported] \notin {NoEngine, f.instance}
        /\ f.instance \notin subscribed

\* the addEnginePlugin calls made with a plugin of a later API version
FutureApiCalls ==
    {c \in 1..Len(pluginCalls) : pluginCalls[c].plugin.apiVersion > ENGINE_API_VERSION}

\* the warning log events emitted so far
WarnEvents == {j \in 1..Len(events) : events[j].logLevel = "Warn"}

\* C14: addEnginePlugin emits exactly one warning log event for a plugin
\* whose getApiVersion() is greater than the supported version and none for
\* any other plugin (so the warnings are as many as the calls with such a
\* plugin), and for either kind of plugin createEngine is invoked for every
\* declared name that was not registered when the call was made.
C14_FutureApiWarnsOnceAndContinues ==
    /\ Cardinality(WarnEvents) = Cardinality(FutureApiCalls)
    /\ \A c \in 1..Len(pluginCalls) :
          \A n \in DeclaredBy(c) :
              pluginCalls[c].enginesAtStart[n] = NoEngine
                  => \E k \in 1..Len(createCalls) :
                        createCalls[k] = [call |-> c, engineName |-> n]

\* the invocations of call c that ran to their end, in the set fin
FinishedOf(fin, c) == {f \in fin : f.call = c}

\* an error log event naming engine n was emitted at position j or later
ErrorLogFrom(j, n) ==
    \E k \in j..Len(events) :
        /\ events[k].logLevel = "Error"
        /\ Len(events[k].message) >= 2
        /\ events[k].message[2] = n

\* when the promise of call c has settled: no invocation of the call is
\* still awaiting, and every declared name is registered or has an error log
SettledCallIsComplete(c) ==
    /\ \A t \in tasks : t.call # c
    /\ \A n \in DeclaredBy(c) :
          /\ \E f \in finished : f.call = c /\ f.engineName = n
          /\ \/ engines[n] # NoEngine
             \/ ErrorLogFrom(pluginCalls[c].eventsAtStart + 1, n)

RuleDescription(name, tags) ==
    [name |-> name, severityLevel |-> 3, tags |-> tags,
     description |-> "about " \o name, resourceUrls |-> <<"url/" \o name>>]
RuleA == RuleDescription("r1", {"Recommended"})
RuleB == RuleDescription("r2", {})
RuleA2 == RuleDescription("r1", {})
SampleDescriptions == {RuleA, RuleB, RuleA2}
DescriptionLists == UNION {[1..n -> SampleDescriptions] : n \in 0..MaxRules}

\* the selector lists passed to selectRules: a tag, a rule name, an engine name
SelectorStrings == {"Recommended", "r2", "e2"}
SelectorLists == UNION {[1..n -> SelectorStrings] : n \in 0..MaxSelectors}

\* RuleOverride values of the configuration: severity and tags are optional
RuleOverrides ==
    [severity : {[def |-> FALSE, value |-> 0], [def |-> TRUE, value |-> 1]},
     tags : {[def |-> FALSE, value |-> {}], [def |-> TRUE, value |-> {}],
             [def |-> TRUE, value |-> {"Recommended"}]}]
\* configurations: an override for rule r2 of engine e1, none for other rules
Configs ==
    {[e \in EngineNames |-> [r \in RuleNames |->
          IF e = "e1" /\ r = "r2" THEN o ELSE NoOverride]] : o \in RuleOverrides}

\* getEngineNames(): the keys of this.engines in insertion order (engine
\* instances are numbered in the order of their registration)
RECURSIVE getEngineNamesFrom(_, _)
getEngineNamesFrom(engs, i) ==
    IF i > Cardinality(EngineNames) THEN << >>
    ELSE LET here == {e \in EngineNames : engs[e] = i}
         IN (IF here = {} THEN << >> ELSE <<CHOOSE e \in here : TRUE>>)
            \o getEngineNamesFrom(engs, i + 1)
getEngineNames(engs) == getEngineNamesFrom(engs, 1)

\* validateRuleDescriptions never throwing
validateRuleDescriptions_NoCheck(ruleDescriptions, engineName) == Ok

\* validateRuleDescriptions: Ok, or the error thrown for the first rule
\* description whose name an earlier description of the list has
validateRuleDescriptions(ruleDescriptions, engineName) ==
    LET dups == {i \in 1..Len(ruleDescriptions) :
                    \E j \in 1..(i - 1) :
                        ruleDescriptions[j].name = ruleDescriptions[i].name}
    IN IF dups = {} THEN Ok
       ELSE LET i == CHOOSE k \in dups : \A m \in dups : k <= m
            IN "EngineReturnedMultipleRulesWithSameName:" \o engineName
                  \o ":" \o ruleDescriptions[i].name

\* JavaScript truthiness of an optional severity (a number) and of optional
\* tags (an array, truthy even when empty)
severityIsTruthy(o) == o.def /\ o.value # 0
tagsAreTruthy(o) == o.def

\* updateRuleDescriptionWithOverrides replacing the tags by the override's
\* whenever the override specifies a severity
updateRuleDescriptionWithOverrides_TagsWithSeverity(engineName, ruleDescription, config) ==
    LET ruleOverride == config[engineName][ruleDescription.name]
    IN IF severityIsTruthy(ruleOverride.severity)
       THEN [ruleDescription EXCEPT !.severityLevel = ruleOverride.severity.value,
                                    !.tags = ruleOverride.tags.value]
       ELSE ruleDescription

\* updateRuleDescriptionWithOverrides: the rule description with the
\* severity and the tags of the rule's override, where it has them
updateRuleDescriptionWithOverrides(engineName, ruleDescription, config) ==
    LET ruleOverride == config[engineName][ruleDescription.name]
        withSeverity ==
            IF severityIsTruthy(ruleOverride.severity)
            THEN [ruleDescription EXCEPT !.severityLevel = ruleOverride.severity.value]
            ELSE ruleDescription
    IN IF tagsAreTruthy(ruleOverride.tags)
       THEN [withSeverity EXCEPT !.tags = ruleOverride.tags.value]
       ELSE withSeverity

\* the debug log event of one overridden field of one rule
RulePropertyOverridden(field, ruleName, engineName) ==
    LogEvent("Debug", <<"RulePropertyOverridden", field, ruleName, engineName>>)

\* the log events updateRuleDescriptionWithOverrides emits for one rule
overrideLogsOf(engineName, ruleDescription, config) ==
    LET ruleOverride == config[engineName][ruleDescription.name]
    IN (IF severityIsTruthy(ruleOverride.severity)
        THEN <<RulePropertyOverridden("severity", ruleDescription.name, engineName)>>
        ELSE << >>)
       \o
       (IF tagsAreTruthy(ruleOverride.tags)
        THEN <<RulePropertyOverridden("tags", ruleDescription.name, engineName)>>
        ELSE << >>)

\* the log events of the overrides of ruleDescriptions[i..], in map order
RECURSIVE overrideLogsFrom(_, _, _, _)
overrideLogsFrom(engineName, ruleDescriptions, config, i) ==
    IF i > Len(ruleDescriptions) THEN << >>
    ELSE overrideLogsOf(engineName, ruleDescriptions[i], config)
         \o overrideLogsFrom(engineName, ruleDescriptions, config, i + 1)

\* new RuleImpl(engineName, ruleDescription)
RuleImpl(engineName, ruleDescription) ==
    [engineName |-> engineName, description |-> ruleDescription]

\* getAllRulesFor after describeRules returned ruleDescriptions: the rules
\* of the engine, or the failure of validateRuleDescriptions
getAllRulesFor(engineName, ruleDescriptions, config) ==
    IF validateRuleDescriptions(ruleDescriptions, engineName) # Ok
    THEN [state |-> "failed", rules |-> << >>]
    ELSE [state |-> "built",
          rules |-> [i \in 1..Len(ruleDescriptions) |->
                       RuleImpl(engineName,
                           updateRuleDescriptionWithOverrides(
                               engineName, ruleDescriptions[i], config))]]

\* getAllRules: the rules of the engines names[i..], flattened in that order
RECURSIVE getAllRulesFrom(_, _, _)
getAllRulesFrom(names, cat, i) ==
    IF i > Len(names) THEN << >>
    ELSE cat[names[i]].rules \o getAllRulesFrom(names, cat, i + 1)
getAllRules(engs, cat) == getAllRulesFrom(getEngineNames(engs), cat, 1)

\* RuleImpl.matchesRuleSelector: the selector is the rule's name, one of its
\* tags, or the name of its engine
matchesRuleSelector(rule, s) ==
    \/ s = rule.description.name
    \/ s \in rule.description.tags
    \/ s = rule.engineName

\* a rule is selected only when every selector matches it
someSelectorMatches_Every(sels, rule) ==
    \A i \in 1..Len(sels) : matchesRuleSelector(rule, sels[i])

\* selectors.some(s => rule.matchesRuleSelector(s))
someSelectorMatches(sels, rule) ==
    \E i \in 1..Len(sels) : matchesRuleSelector(rule, sels[i])

\* RuleSelectionImpl.addRule: the rule joins the rules of its engine, and an
\* engine without rules so far joins the engine names
addRule(selection, rule) ==
    [order |-> IF rule.engineName \in Range(selection.order)
               THEN selection.order
               ELSE Append(selection.order, rule.engineName),
     rules |-> [selection.rules EXCEPT
                  ![rule.engineName] = @ \cup {rule.description.name}]]

\* the loop of selectRules over allRules[i..]
RECURSIVE selectFrom(_, _, _, _)
selectFrom(allRules, sels, i, selection) ==
    IF i > Len(allRules) THEN selection
    ELSE selectFrom(allRules, sels, i + 1,
             IF someSelectorMatches(sels, allRules[i])
             THEN addRule(selection, allRules[i])
             ELSE selection)

\* new RuleSelectionImpl()
EmptySelection == [order |-> << >>, rules |-> [e \in EngineNames |-> {}]]

\* selectRules using the selectors as given
effectiveSelectors_NoDefault(sels) == sels

\* the selectors selectRules works with: the default when none are given
effectiveSelectors(sels) ==
    IF Len(sels) > 0 THEN sels ELSE <<"Recommended">>

\* what selectRules(sels) returns over the rules of the catalog cat
selectRulesOver(engs, cat, sels) ==
    selectFrom(getAllRules(engs, cat), effectiveSelectors(sels), 1, EmptySelection)

\* the engines registered when selectRules is called, in registration order
RegisteredEngines ==
    {[e \in EngineNames |-> NoEngine],
     [e \in EngineNames |-> IF e = "e1" THEN 1 ELSE NoEngine],
     [e \in EngineNames |-> CASE e = "e1" -> 1 [] e = "e2" -> 2 [] OTHER -> NoEngine],
     [e \in EngineNames |-> CASE e = "e1" -> 2 [] e = "e2" -> 1 [] OTHER -> NoEngine]}

\* selectRules(selectors, selectOptions) up to its await of getAllRules:
\* describeRules has been invoked on every registered engine
SelectRules ==
    /\ selStatus = "idle"
    /\ \E sels \in SelectorLists : selectors' = sels
    /\ selStatus' = "selecting"
    /\ UNCHANGED <<valVars, ruleSelection, coreVars, runVars, regVars,
                   overrides, described, catalog, selError, auxVars>>

\* describeRules of one engine returns and getAllRulesFor runs to its end:
\* it throws for a repeated rule name, or applies the overrides, logging them
DescribeRulesSettles ==
    /\ selStatus \in {"selecting", "threw"}
    /\ \E e \in EngineNames : \E ruleDescriptions \in DescriptionLists :
          LET valid == validateRuleDescriptions(ruleDescriptions, e)
          IN /\ engines[e] # NoEngine
             /\ ~described[e].done
             /\ described' = [described EXCEPT
                                ![e] = [done |-> TRUE, rules |-> ruleDescriptions]]
             /\ catalog' = [catalog EXCEPT
                              ![e] = getAllRulesFor(e, ruleDescriptions, overrides)]
             /\ events' = IF valid = Ok
                          THEN events \o overrideLogsFrom(e, ruleDescriptions, overrides, 1)
                          ELSE events
             /\ selError' = IF valid # Ok /\ selError = "" THEN valid ELSE selError
    /\ UNCHANGED <<valVars, ruleSelection, engines, subscribed, runVars, regVars,
                   overrides, selectors, selStatus, auxVars>>

\* the Promise.all awaited by getAllRules settles and selectRules runs to
\* its end: it rejects with the first error, or returns the selection
SelectRulesSettles ==
    /\ selStatus = "selecting"
    /\ IF selError # ""
       THEN /\ selStatus' = "threw"
            /\ UNCHANGED ruleSelection
       ELSE /\ \A e \in EngineNames : engines[e] # NoEngine => described[e].done
            /\ selStatus' = "returned"
            /\ ruleSelection' = selectRulesOver(engines, catalog, selectors)
    /\ UNCHANGED <<valVars, coreVars, runVars, regVars,
                   overrides, selectors, described, catalog, selError, auxVars>>

InitSelect ==
    /\ AuxIdle
    /\ ValIdle
    /\ RunIdle
    /\ RegIdle
    /\ ruleSelection = EmptySelection
    /\ engines \in RegisteredEngines
    /\ subscribed = {engines[e] : e \in EngineNames} \ {NoEngine}
    /\ events = << >>
    /\ overrides \in Configs
    /\ selectors = << >>
    /\ described = [e \in EngineNames |-> NotDescribed]
    /\ catalog = [e \in EngineNames |-> NoCatalog]
    /\ selStatus = "idle"
    /\ selError = ""

NextSelect ==
    \/ SelectRules
    \/ DescribeRulesSettles
    \/ SelectRulesSettles

SpecSelect == InitSelect /\ [][NextSelect]_vars

(***************************************************************************)
(* Properties of selectRules (checked under SpecSelect)                    *)
(***************************************************************************)
\* the names of the catalog rules of engine e
CatalogNames(e) == {catalog[e].rules[i].description.name : i \in 1..Len(catalog[e].rules)}

\* C16: selectRules([]) returns the selection that selectRules(["Recommended"])
\* returns over the same engines and the same rule descriptions: the same
\* engine names in the same order with the same rules per engine.
C16_EmptySelectorsMeanRecommended ==
    (selStatus = "returned" /\ selectors = << >>)
        => ruleSelection = selectRulesOver(engines, catalog, <<"Recommended">>)

C16_Witness ==
    /\ selStatus = "returned"
    /\ selectors = << >>
    /\ ruleSelection.order = <<"e2", "e1">>
    /\ \E e \in EngineNames : CatalogNames(e) \ ruleSelection.rules[e] # {}

\* the selector strings a call with the given selectors works with
SelectorSet ==
    IF selectors = << >> THEN {"Recommended"} ELSE Range(selectors)

\* the names of the catalog rules of engine e that match a selector
MatchingNames(e) ==
    {catalog[e].rules[i].description.name :
        i \in {j \in 1..Len(catalog[e].rules) :
                 \E sel \in SelectorSet : matchesRuleSelector(catalog[e].rules[j], sel)}}

\* C17: the selection selectRules returns holds, per engine, exactly the
\* catalog rules that match at least one selector; its engine names are the
\* engines with a matching rule, each once, and an engine without one is
\* absent without an error.
C17_SelectionIsExactlyTheMatches ==
    selStatus = "returned" =>
        /\ \A e \in EngineNames : ruleSelection.rules[e] = MatchingNames(e)
        /\ Range(ruleSelection.order) = {e \in EngineNames : MatchingNames(e) # {}}
        /\ \A i \in 1..Len(ruleSelection.order) : \A j \in 1..Len(ruleSelection.order) :
              ruleSelection.order[i] = ruleSelection.order[j] => i = j

\* selectors ["Recommended"] over rule A tagged Recommended and rule B
\* untagged of engine e1, and an engine e2 without a matching rule
C17_Witness ==
    /\ selStatus = "returned"
    /\ selectors = <<"Recommended">>
    /\ catalog["e1"].rules = <<RuleImpl("e1", RuleA), RuleImpl("e1", RuleB)>>
    /\ catalog["e2"].rules = <<RuleImpl("e2", RuleB)>>
    /\ ruleSelection.rules["e1"] = {"r1"}
    /\ ruleSelection.order = <<"e1">>

\* rule name r occurs twice in the descriptions describeRules of e returned
RepeatedIn(e, r) ==
    /\ described[e].done
    /\ \E i \in 1..Len(described[e].rules) : \E j \in 1..Len(described[e].rules) :
          /\ i < j
          /\ described[e].rules[i].name = r
          /\ described[e].rules[j].name = r

HasRepeatedName(e) == \E r \in RuleNames : RepeatedIn(e, r)

\* C18: when the describeRules of one engine returns two descriptions with
\* the same name, getAllRulesFor fails for that engine and selectRules never
\* returns a selection; the error it throws names an engine and a rule name
\* that engine repeated; a rule name described by two different engines, each
\* once, causes no error.
C18_RepeatedRuleNameFailsCatalog ==
    /\ \A e \in EngineNames : HasRepeatedName(e) =>
          /\ catalog[e].state = "failed"
          /\ selError # ""
          /\ selStatus # "returned"
          /\ ruleSelection = EmptySelection
    /\ selError # "" =>
          \E e \in EngineNames : \E r \in RuleNames :
              /\ RepeatedIn(e, r)
              /\ selError = "EngineReturnedMultipleRulesWithSameName:" \o e \o ":" \o r
    /\ (\A e \in EngineNames : ~HasRepeatedName(e))
          => selStatus # "threw" /\ selError = ""

C18_Witness ==
    /\ selStatus = "threw"
    /\ described["e1"] = [done |-> TRUE, rules |-> <<RuleA, RuleA2>>]
    /\ described["e2"] = [done |-> TRUE, rules |-> <<RuleA>>]
    /\ catalog["e2"].state = "built"
    /\ selError = "EngineReturnedMultipleRulesWithSameName:e1:r1"
    /\ ruleSelection = EmptySelection

\* how many RulePropertyOverridden log events were emitted for the field of
\* rule r of engine e
OverrideLogCount(field, r, e) ==
    Cardinality({k \in 1..Len(events) : events[k] = RulePropertyOverridden(field, r, e)})

\* the catalog rule at position i of engine e is the description the engine
\* returned there, with the override's severity and tags where specified
OverriddenAsSpecified(e, i) ==
    LET before == described[e].rules[i]
        after == catalog[e].rules[i]
        ruleOverride == overrides[e][before.name]
    IN /\ after.engineName = e
       /\ after.description.name = before.name
       /\ after.description.description = before.description
       /\ after.description.resourceUrls = before.resourceUrls
       /\ after.description.severityLevel =
             (IF ruleOverride.severity.def THEN ruleOverride.severity.value
              ELSE before.severityLevel)
       /\ after.description.tags =
             (IF ruleOverride.tags.def THEN ruleOverride.tags.value ELSE before.tags)

\* C19: applying the overrides keeps the rules of the catalog those the engine
\* described (same names, same positions); a rule's severity is the
\* override's iff the override specifies one, its tags are the override's iff
\* the override specifies tags, one debug log event is emitted per replaced
\* field and none otherwise, and name, description and resource URLs are kept.
C19_OverridesOnlyReplaceSeverityAndTags ==
    \A e \in EngineNames :
        /\ catalog[e].state = "built" =>
              /\ Len(catalog[e].rules) = Len(described[e].rules)
              /\ CatalogNames(e) = {described[e].rules[i].name : i \in 1..Len(described[e].rules)}
              /\ \A i \in 1..Len(catalog[e].rules) : OverriddenAsSpecified(e, i)
        /\ \A r \in RuleNames :
              /\ OverrideLogCount("severity", r, e) =
                    (IF r \in CatalogNames(e) /\ overrides[e][r].severity.def THEN 1 ELSE 0)
              /\ OverrideLogCount("tags", r, e) =
                    (IF r \in CatalogNames(e) /\ overrides[e][r].tags.def THEN 1 ELSE 0)

C19_Witness ==
    /\ selStatus = "returned"
    /\ described["e1"] = [done |-> TRUE, rules |-> <<RuleA, RuleB>>]
    /\ overrides["e1"]["r2"] = [severity |-> [def |-> TRUE, value |-> 1],
                                tags |-> [def |-> FALSE, value |-> {}]]
    /\ catalog["e1"].rules = <<RuleImpl("e1", RuleA),
                               RuleImpl("e1", [RuleB EXCEPT !.severityLevel = 1])>>
    /\ OverrideLogCount("severity", "r2", "e1") = 1
    /\ OverrideLogCount("tags", "r2", "e1") = 0

(***************************************************************************)
(* Properties of the run options (checked under Spec)                      *)
(***************************************************************************)
\* the text without its trailing whitespace and semicolons
RECURSIVE trimmed(_)
trimmed(str) ==
    IF Len(str) > 0 /\ str[Len(str)] \in Whitespace \cup {";"}
    THEN trimmed(SubSeq(str, 1, Len(str) - 1))
    ELSE str

\* the text matches ^[A-Za-z][A-Za-z0-9_]*$
IsIdentifier(text) ==
    /\ text # << >>
    /\ Head(text) \in Letters
    /\ \A j \in 1..Len(text) : text[j] \in Letters \cup Digits \cup {"_"}

\* the path start point string is syntactically malformed: more than one
\* '#', or a method part that is not a list of identifiers
Malformed(str) ==
    LET parts == split(str, "#")
        names == split(trimmed(parts[2]), ";")
    IN \/ Len(parts) > 2
       \/ Len(parts) = 2 /\ \E k \in 1..Len(names) : ~IsIdentifier(names[k])

\* the file a path start point string names
FileOf(str) == split(str, "#")[1]

\* the file is one of the workspace's files and folders or lies below one
\* of its folders
InsideWorkspace(file, filesAndFolders) ==
    \E k \in 1..Len(filesAndFolders) :
        \/ filesAndFolders[k] = file
        \/ /\ statKind(filesAndFolders[k]) = "dir"
           /\ startsWith(file, filesAndFolders[k] \o <<"/">>)

InvalidRunOptions(options) ==
    \/ Len(options.filesAndFolders) = 0
    \/ \E i \in 1..Len(options.pathStartPoints) :
          LET str == options.pathStartPoints[i] IN
          \/ Malformed(str)
          \/ statKind(FileOf(str)) = "missing"
          \/ ~InsideWorkspace(FileOf(str), options.filesAndFolders)

\* C20: when the run options are invalid (no files and folders in the
\* workspace, or a path start point that is malformed, names a missing file,
\* or lies outside the workspace), run() throws before any runRules is
\* invoked and before any progress or results event is emitted.
C20_InvalidRunOptionsFailBeforeAnyEngine ==
    InvalidRunOptions(runOptions) =>
        /\ runStatus \in {"idle", "threw"}
        /\ calls = << >>
        /\ \A j \in 1..Len(events) :
              events[j].type \notin {"EngineProgressEvent", "EngineResultsEvent"}

(***************************************************************************)
(* extractEngineRunOptions on its own: the run options are drawn from a    *)
(* set of workspaces and path start point strings, and the one action      *)
(* applies the function as run() does before it invokes any engine.  What  *)
(* it returns is what run() passes to runRules of every engine.            *)
(***************************************************************************)
\* the characters the method part of a sample path start point is made of
MethodChars == {"m", "1", ";", " ", "#"}
\* the texts of at most n of these characters
TextsUpTo(n) == UNION {[1..k -> MethodChars] : k \in 0..n}

\* the files and folders a sample path start point names
SampleFiles == {FileInFoo, DirFoo, MissingInFoo, FileInFoobar, FileElsewhere}

\* path start point strings: file /ws/foo/A followed by '#' and every text
\* of at most MaxMethodChars characters; and each sample file or folder on
\* its own and with method m
SampleStartPointStrings ==
    {FileInFoo \o <<"#">> \o text : text \in TextsUpTo(MaxMethodChars)}
    \cup SampleFiles
    \cup {file \o <<"#", "m">> : file \in SampleFiles}

\* the files and folders of the sample workspaces
SampleWorkspaces == {<<DirFoo>>, <<FileInFoo>>, <<DirFoobar, FileElsewhere>>, << >>}

\* the run options given: each string against the workspace of folder
\* /ws/foo, each file or folder against every sample workspace, and no path
\* start point at all
SampleOptionsToExtract ==
    {[filesAndFolders |-> <<DirFoo>>, pathStartPoints |-> <<str>>] :
        str \in SampleStartPointStrings}
    \cup {[filesAndFolders |-> ws, pathStartPoints |-> <<file>>] :
             ws \in SampleWorkspaces, file \in SampleFiles}
    \cup {[filesAndFolders |-> ws, pathStartPoints |-> << >>] : ws \in SampleWorkspaces}

\* extractEngineRunOptions(givenOptions), as the first statement of run()
ExtractEngineRunOptions ==
    /\ ~engineOptions.done
    /\ engineOptions' = [done |-> TRUE,
                         error |-> engineRunOptionsOf(givenOptions).error,
                         pathStartPoints |->
                             engineRunOptionsOf(givenOptions).pathStartPoints]
    /\ UNCHANGED <<analyzerVars, givenOptions, rxVars, wsVars, busVars, eslVars>>

InitExtract ==
    /\ ValIdle
    /\ RunIdle
    /\ CoreEmpty
    /\ RegIdle
    /\ SelIdle
    /\ RxIdle
    /\ WsIdle
    /\ BusIdle
    /\ EslIdle
    /\ ruleSelection = EmptySelection
    /\ givenOptions \in SampleOptionsToExtract
    /\ engineOptions = NotExtracted

NextExtract == ExtractEngineRunOptions

SpecExtract == InitExtract /\ [][NextExtract]_vars

(***************************************************************************)
(* Properties of the path start points (checked under SpecExtract)         *)
(***************************************************************************)
\* extractEngineRunOptions was applied to one path start point string
ExtractedOne == engineOptions.done /\ Len(givenOptions.pathStartPoints) = 1
\* that string
GivenStr == givenOptions.pathStartPoints[1]

\* the text is a list m1;m2;...;mk of valid identifiers
IsMethodList(text) ==
    \A k \in 1..Len(split(text, ";")) : IsIdentifier(split(text, ";")[k])

\* the method lists a method part stands for: the part itself if it is a
\* list of identifiers, and what precedes a trailing semicolon followed by
\* whitespace if that is one
MethodListsOf(part) ==
    {text \in {part} : IsMethodList(text)}
    \cup {SubSeq(part, 1, i - 1) : i \in
             {j \in 1..(Len(part) - 1) :
                 /\ part[j] = ";"
                 /\ \A l \in (j + 1)..Len(part) : part[l] \in Whitespace
                 /\ IsMethodList(SubSeq(part, 1, j - 1))}}

\* the path start points file#m1;...;mk stands for
PointsOf(file, text) ==
    [k \in 1..Len(split(text, ";")) |->
        [file |-> file, methodName |-> split(text, ";")[k]]]

\* C21: a path start point string file#m1;...;mk naming an existing file
\* of the workspace yields the k path start points {file, m1} ... {file, mk}
\* in order, and so does the same string followed by a semicolon and
\* whitespace.
C21_MethodListYieldsOnePointPerMethod ==
    (/\ ExtractedOne
     /\ Len(split(GivenStr, "#")) = 2
     /\ statKind(FileOf(GivenStr)) = "file"
     /\ InsideWorkspace(FileOf(GivenStr), givenOptions.filesAndFolders))
    => \A text \in MethodListsOf(split(GivenStr, "#")[2]) :
          /\ engineOptions.error = Ok
          /\ engineOptions.pathStartPoints = PointsOf(FileOf(GivenStr), text)

\* the messages of the input errors a path start point can raise
StartPointErrors ==
    {"InvalidPathStartPoint", "PathStartPointFileDoesNotExist",
     "PathStartPointWithMethodMustNotBeFolder", "FileOrFolderDoesNotExist",
     "PathStartPointMustBeInsideWorkspace"}

\* C22: a path start point string with more than one '#', or whose method
\* part, after trimming trailing whitespace and semicolons, is empty or has
\* a segment that is not an identifier, is rejected with an input error
\* (InvalidPathStartPoint when its file exists and is no folder), and no
\* path start point is returned.
C22_MalformedStartPointIsRejected ==
    (/\ ExtractedOne
     /\ Len(givenOptions.filesAndFolders) > 0
     /\ Malformed(GivenStr))
    => /\ engineOptions.error \in StartPointErrors
       /\ engineOptions.pathStartPoints = << >>
       /\ statKind(FileOf(GivenStr)) = "file"
             => engineOptions.error = "InvalidPathStartPoint"
C22_Witness ==
    /\ ExtractedOne
    /\ GivenStr = FileInFoo \o <<"#", "m", ";", ";", "m">>
    /\ Malformed(GivenStr)
    /\ engineOptions.error = "InvalidPathStartPoint"
C22_WitnessTwoHashes ==
    /\ ExtractedOne
    /\ GivenStr = FileInFoo \o <<"#", "m", "#", "m">>
    /\ Malformed(GivenStr)
    /\ engineOptions.error = "InvalidPathStartPoint"

\* C23, as stated: whether or not the string has a method part, a start
\* point file that is missing or a folder raises an input error, and no path
\* start point whose file is a folder is returned for the engines.
C23_MissingOrFolderIsRejected ==
    ExtractedOne /\ Len(givenOptions.filesAndFolders) > 0
    => /\ statKind(FileOf(GivenStr)) \in {"missing", "dir"}
             => engineOptions.error \in StartPointErrors
       /\ \A k \in 1..Len(engineOptions.pathStartPoints) :
             statKind(engineOptions.pathStartPoints[k].file) # "dir"

\* C23, amended: a start point file that is missing raises an input error;
\* one that is a folder raises an input error if the string has a '#'; no
\* path start point with a method name whose file is a folder is returned
\* for the engines.  A folder of the workspace given without '#' is
\* returned as a path start point without method name.
C23_Amended ==
    ExtractedOne /\ Len(givenOptions.filesAndFolders) > 0
    => /\ statKind(FileOf(GivenStr)) = "missing"
             => engineOptions.error \in
                    {"PathStartPointFileDoesNotExist", "FileOrFolderDoesNotExist",
                     "InvalidPathStartPoint"}
       /\ statKind(FileOf(GivenStr)) = "dir" /\ Len(split(GivenStr, "#")) > 1
             => engineOptions.error \in
                    {"PathStartPointWithMethodMustNotBeFolder", "InvalidPathStartPoint"}
       /\ \A k \in 1..Len(engineOptions.pathStartPoints) :
             statKind(engineOptions.pathStartPoints[k].file) = "dir"
                 => engineOptions.pathStartPoints[k].methodName = << >>
       /\ (/\ statKind(GivenStr) = "dir"
           /\ fileIsUnderneath(GivenStr, givenOptions.filesAndFolders))
             => /\ engineOptions.error = Ok
                /\ engineOptions.pathStartPoints =
                       <<[file |-> GivenStr, methodName |-> << >>]>>
C23_Witness ==
    /\ ExtractedOne
    /\ GivenStr = DirFoo \o <<"#", "m">>
    /\ givenOptions.filesAndFolders = <<DirFoo>>
    /\ engineOptions.error = "PathStartPointWithMethodMustNotBeFolder"
C23_WitnessFolderAccepted ==
    /\ ExtractedOne
    /\ GivenStr = DirFoo
    /\ givenOptions.filesAndFolders = <<DirFoo>>
    /\ engineOptions.error = Ok
    /\ engineOptions.pathStartPoints = <<[file |-> DirFoo, methodName |-> << >>]>>

\* C24: a path start point is accepted only if its file is one of the
\* workspace's files and folders or lies below one of its folders; a file
\* outside (a file of a sibling folder whose path shares a text prefix with
\* a workspace folder included) raises PathStartPointMustBeInsideWorkspace.
C24_OutsideWorkspaceIsRejected ==
    ExtractedOne /\ Len(givenOptions.filesAndFolders) > 0
    => /\ engineOptions.error = Ok
             => InsideWorkspace(FileOf(GivenStr), givenOptions.filesAndFolders)
       /\ (/\ ~Malformed(GivenStr)
           /\ statKind(FileOf(GivenStr)) = "file"
           /\ ~InsideWorkspace(FileOf(GivenStr), givenOptions.filesAndFolders))
             => engineOptions.error = "PathStartPointMustBeInsideWorkspace"

(***************************************************************************)
(* The regex engine: RegexEngine.describeRules / runRules and              *)
(* RegexExecutor.execute.  File names and file contents are texts          *)
(* (sequences of characters).                                              *)
(***************************************************************************)
APEX_CLASS_FILE_EXT == <<".", "c", "l", "s">>

\* the files of the workspace the regex engine scans: three Apex classes,
\* an XML file and a folder
ClsA == <<"/", "w", "/", "A", ".", "c", "l", "s">>
ClsB == <<"/", "w", "/", "B", ".", "c", "l", "s">>
ClsC == <<"/", "w", "/", "C", ".", "c", "l", "s">>
XmlD == <<"/", "w", "/", "D", ".", "x", "m", "l">>
FolderW == <<"/", "w">>
RegexFiles == {ClsA, ClsB, ClsC, XmlD}

\* fs.statSync(file).isFile()
isFile(file) == file \in RegexFiles

\* path.extname(fileName): the text from the last '.' of the last path
\* segment on, empty when there is none or the segment starts with it
extname(fileName) ==
    LET segments == split(fileName, "/")
        base == segments[Len(segments)]
        dots == {i \in 2..Len(base) : base[i] = "."}
    IN IF dots = {} THEN << >>
       ELSE SubSeq(base, CHOOSE i \in dots : \A j \in dots : j <= i, Len(base))

\* the characters the regular expression of the rule tells apart
SpaceOrTab == {" ", "\t"}
WhitespaceChars == {" ", "\t", "\r", "\n", "\f"}

\* /(?<=[^ \t\r\n\f])[ \t]+$/.exec(line): the positions (counted from 1) at
\* which a match starts, a run of spaces and tabs up to the end of the line
\* that follows a character that is no whitespace
matchStarts(line) ==
    {i \in 2..Len(line) :
        /\ line[i - 1] \notin WhitespaceChars
        /\ \A j \in i..Len(line) : line[j] \in SpaceOrTab}

\* match.index of the match: counted from 0
matchIndex(line) == (CHOOSE i \in matchStarts(line) : TRUE) - 1

\* the violation getViolations pushes for line lineNum (counted from 0)
trailingWhitespaceViolation(fileName, lineNum, line) ==
    [ruleName |-> "Trailing Whitespace",
     primaryLocationIndex |-> Num(0),
     codeLocations |-> <<[file |-> fileName,
                          startLine |-> Num(lineNum + 1),
                          startColumn |-> Num(matchIndex(line)),
                          endLine |-> Undefined, endColumn |-> Undefined]>>]

\* split_data.forEach of getViolations from the k-th line on
RECURSIVE getViolationsFrom(_, _, _)
getViolationsFrom(fileName, split_data, k) ==
    IF k > Len(split_data) THEN << >>
    ELSE (IF matchStarts(split_data[k]) # {}
          THEN <<trailingWhitespaceViolation(fileName, k - 1, split_data[k])>>
          ELSE << >>)
         \o getViolationsFrom(fileName, split_data, k + 1)

\* getViolations(fileName), data being the text read from the file
getViolations(fileName, data) == getViolationsFrom(fileName, split(data, "\n"), 1)

\* scanFile(fileName)
scanFile(fileName, data) ==
    IF extname(fileName) = APEX_CLASS_FILE_EXT THEN getViolations(fileName, data)
    ELSE << >>

\* the loop of execute(allFiles) from the i-th file on
RECURSIVE executeFrom(_, _, _)
executeFrom(allFiles, data, i) ==
    IF i > Len(allFiles) THEN << >>
    ELSE (IF isFile(allFiles[i]) THEN scanFile(allFiles[i], data[allFiles[i]])
          ELSE << >>)
         \o executeFrom(allFiles, data, i + 1)

\* RegexExecutor.execute(allFiles)
execute(allFiles, data) == executeFrom(allFiles, data, 1)

\* RegexEngine.NAME and what RegexEngine.describeRules returns
RegexEngineName == "regex"
regexDescribeRules ==
    <<[name |-> "TrailingWhitespaceRule", severityLevel |-> "Low",
       tags |-> {"Recommended", "CodeStyle"}]>>

\* the characters of the sample file contents
FileChars == {"x", " ", "\n"}
\* the texts of at most n of these characters
FileTextsUpTo(n) == UNION {[1..k -> FileChars] : k \in 0..n}

\* the lists of files the workspace expands to
SampleFileLists ==
    {<<ClsA>>, <<XmlD>>, <<ClsA, ClsB>>, <<ClsB, XmlD, ClsA>>,
     <<ClsA, ClsB, ClsC>>, <<FolderW, ClsA>>}

\* the contents of the files: any text of at most MaxFileChars characters in
\* A.cls; a line with or without trailing whitespace in B.cls and C.cls; a
\* line with trailing whitespace in D.xml
SampleFileData ==
    {[f \in RegexFiles |->
         CASE f = ClsA -> a
           [] f = ClsB -> b
           [] f = ClsC -> c
           [] OTHER -> <<"x", " ">>] :
       a \in FileTextsUpTo(MaxFileChars),
       b \in {<<"x", " ">>, <<"x">>},
       c \in {<<"x", "\n", "x", " ">>, << >>}}

\* RegexEngine.runRules(ruleNames, runOptions): the executor is run on the
\* expanded files of the workspace
RegexRunRules ==
    /\ ~regexResults.done
    /\ regexResults' = [done |-> TRUE, violations |-> execute(scanFiles, fileData)]
    /\ UNCHANGED <<analyzerVars, optVars, scanFiles, fileData, wsVars, busVars, eslVars>>

InitRegex ==
    /\ ValIdle
    /\ RunIdle
    /\ CoreEmpty
    /\ RegIdle
    /\ SelIdle
    /\ OptIdle
    /\ WsIdle
    /\ BusIdle
    /\ EslIdle
    /\ ruleSelection = EmptySelection
    /\ scanFiles \in SampleFileLists
    /\ fileData \in SampleFileData
    /\ regexResults = NotRun

NextRegex == RegexRunRules

SpecRegex == InitRegex /\ [][NextRegex]_vars

(***************************************************************************)
(* Properties of the regex engine (checked under SpecRegex)                *)
(***************************************************************************)
\* the line ends in spaces or tabs that follow some text
HasTrailingWhitespace(line) ==
    /\ line # << >>
    /\ line[Len(line)] \in {" ", "\t"}
    /\ \E i \in 1..Len(line) : line[i] \notin {" ", "\t"}

\* is the text an Apex class file name
IsApexClass(fileName) ==
    /\ Len(fileName) > 4
    /\ SubSeq(fileName, Len(fileName) - 3, Len(fileName)) = <<".", "c", "l", "s">>

\* the lines with trailing whitespace of the scanned Apex class files, as
\* pairs of position in the file list and line number
TrailingWhitespaceLines ==
    {pair \in (1..Len(scanFiles)) \X (1..(MaxFileChars + 1)) :
        /\ scanFiles[pair[1]] \in RegexFiles
        /\ IsApexClass(scanFiles[pair[1]])
        /\ pair[2] <= Len(split(fileData[scanFiles[pair[1]]], "\n"))
        /\ HasTrailingWhitespace(split(fileData[scanFiles[pair[1]]], "\n")[pair[2]])}

\* C27: execute returns no violation when no scanned Apex class file has a
\* line with trailing whitespace, and otherwise exactly one violation, with
\* primaryLocationIndex 0 and one code location per such line over all the
\* files.
C27_OneViolationWithAllLocations ==
    regexResults.done =>
        IF TrailingWhitespaceLines = {}
        THEN regexResults.violations = << >>
        ELSE /\ Len(regexResults.violations) = 1
             /\ regexResults.violations[1].primaryLocationIndex = Num(0)
             /\ Len(regexResults.violations[1].codeLocations)
                    = Cardinality(TrailingWhitespaceLines)

\* the selection of the rules the regex engine describes
RegexSelection ==
    [order |-> <<RegexEngineName>>,
     rules |-> [e \in {RegexEngineName} |->
                   {regexDescribeRules[i].name : i \in 1..Len(regexDescribeRules)}]]

\* C29: every violation runRules returns names a rule that describeRules
\* reports, and passes the validator's checks of the rule name (against the
\* selection of the described rule), of primaryLocationIndex and of
\* startLine and startColumn being at least 1.
C29_RegexViolationsPassValidation ==
    regexResults.done =>
        \A i \in 1..Len(regexResults.violations) :
            LET violation == regexResults.violations[i] IN
            /\ \E d \in 1..Len(regexDescribeRules) :
                  regexDescribeRules[d].name = violation.ruleName
            /\ validateViolationRuleName(violation, RegexEngineName, RegexSelection) = Ok
            /\ validateViolationPrimaryLocationIndex(violation) = Ok
            /\ \A l \in 1..Len(violation.codeLocations) :
                  /\ isValidLineOrColumn(violation.codeLocations[l].startLine)
                  /\ isValidLineOrColumn(violation.codeLocations[l].startColumn)

(***************************************************************************)
(* Workspace.getExpandedFiles, as implemented by the Workspace the regex   *)
(* engine is run with.  Several calls may be in progress at once: each is  *)
(* suspended at its await until the expansion it started finishes.         *)
(***************************************************************************)
\* the file system below /w: the files of RegexFiles and the folder /w/s
\* with the file /w/s/E.cls
FolderS == <<"/", "w", "/", "s">>
ClsE == <<"/", "w", "/", "s", "/", "E", ".", "c", "l", "s">>

\* fs.promises.stat(currentPath).isDirectory()
isDirectory(currentPath) == currentPath \in {FolderW, FolderS}

\* fs.promises.readdir(currentPath) joined with currentPath
readdir(currentPath) ==
    IF currentPath = FolderW THEN {XmlD, ClsB, FolderS, ClsA, ClsC}
    ELSE IF currentPath = FolderS THEN {ClsE}
    ELSE {}

\* processPath(currentPath): the files pushed to allFiles
RECURSIVE processPath(_)
processPath(currentPath) ==
    IF isDirectory(currentPath)
    THEN UNION {processPath(subPath) : subPath \in readdir(currentPath)}
    ELSE {currentPath}

\* the UTF-16 code unit of a character of these paths
charCode(c) ==
    CASE c = "." -> 46 [] c = "/" -> 47
      [] c = "A" -> 65 [] c = "B" -> 66 [] c = "C" -> 67 [] c = "D" -> 68
      [] c = "E" -> 69
      [] c = "c" -> 99 [] c = "l" -> 108 [] c = "m" -> 109 [] c = "s" -> 115
      [] c = "w" -> 119 [] c = "x" -> 120
      [] OTHER -> 0

\* a sorts before b in Array.prototype.sort's default order
RECURSIVE sortsBefore(_, _)
sortsBefore(a, b) ==
    IF a = << >> THEN b # << >>
    ELSE IF b = << >> THEN FALSE
    ELSE IF Head(a) # Head(b) THEN charCode(Head(a)) < charCode(Head(b))
    ELSE sortsBefore(Tail(a), Tail(b))

\* allFiles.sort() of the files pushed (each once)
RECURSIVE sorted(_)
sorted(allFiles) ==
    IF allFiles = {} THEN << >>
    ELSE LET first == CHOOSE f \in allFiles :
                          \A g \in allFiles \ {f} : sortsBefore(f, g)
         IN <<first>> \o sorted(allFiles \ {first})

\* expandToListAllFiles(absoluteFileOrFolderPaths)
expandToListAllFiles(absoluteFileOrFolderPaths) ==
    sorted(UNION {processPath(absoluteFileOrFolderPaths[i]) :
                     i \in 1..Len(absoluteFileOrFolderPaths)})

\* the test of getExpandedFiles that skips the expansion: this.expandedFiles
\* is set
expansionIsCached(cache) == cache.state = "cached"

\* the files and folders of the sample workspaces
SampleWorkspaceInputs ==
    {<<FolderW>>, <<ClsB, ClsA>>, <<FolderS, ClsA>>, <<XmlD>>, << >>}

\* getExpandedFiles() is called and runs up to its await, or to its end when
\* the list is cached
GetExpandedFiles ==
    /\ Len(wsCalls) < MaxWsCalls
    /\ IF expansionIsCached(wsCache)
       THEN /\ wsCalls' = Append(wsCalls, [state |-> "returned", files |-> wsCache.files])
            /\ UNCHANGED wsExpansions
       ELSE /\ wsCalls' = Append(wsCalls, [state |-> "expanding", files |-> << >>])
            /\ wsExpansions' = wsExpansions + 1
    /\ UNCHANGED <<analyzerVars, optVars, rxVars, wsFilesAndFolders, wsCache,
                   busVars, eslVars>>

\* the expansion a call awaits finishes: the call stores the list in
\* this.expandedFiles and returns it
ExpansionFinishes ==
    /\ \E c \in 1..Len(wsCalls) :
        /\ wsCalls[c].state = "expanding"
        /\ LET files == expandToListAllFiles(wsFilesAndFolders) IN
           /\ wsCache' = [state |-> "cached", files |-> files]
           /\ wsCalls' = [wsCalls EXCEPT ![c] = [state |-> "returned", files |-> files]]
    /\ UNCHANGED <<analyzerVars, optVars, rxVars, wsFilesAndFolders, wsExpansions,
                   busVars, eslVars>>

InitWorkspace ==
    /\ ValIdle
    /\ RunIdle
    /\ CoreEmpty
    /\ RegIdle
    /\ SelIdle
    /\ OptIdle
    /\ RxIdle
    /\ BusIdle
    /\ EslIdle
    /\ ruleSelection = EmptySelection
    /\ wsFilesAndFolders \in SampleWorkspaceInputs
    /\ wsCache = NotExpanded
    /\ wsCalls = << >>
    /\ wsExpansions = 0

NextWorkspace ==
    \/ GetExpandedFiles
    \/ ExpansionFinishes

SpecWorkspace == InitWorkspace /\ [][NextWorkspace]_vars

(***************************************************************************)
(* Properties of the Workspace (checked under SpecWorkspace)               *)
(***************************************************************************)
\* the list holds files only, in ascending order
IsSortedListOfFiles(files) ==
    /\ \A i \in 1..Len(files) : ~isDirectory(files[i])
    /\ \A i \in 1..(Len(files) - 1) : sortsBefore(files[i], files[i + 1])

\* C25: under any number and interleaving of getExpandedFiles calls (two
\* calls started before the first has finished included) the recursive
\* expansion is computed at most once, and every call returns the same
\* sorted list of files.
C25_ExpansionComputedAtMostOnce ==
    /\ wsExpansions <= 1
    /\ \A c \in 1..Len(wsCalls) :
          wsCalls[c].state = "returned" =>
              /\ IsSortedListOfFiles(wsCalls[c].files)
              /\ \A d \in 1..Len(wsCalls) :
                    wsCalls[d].state = "returned" => wsCalls[d].files = wsCalls[c].files

(***************************************************************************)
(* The event emitter of the CodeAnalyzer: onEvent registers a callback     *)
(* under an event type, emitEvent calls eventEmitter.emit(type, event),    *)
(* which calls the callbacks one after the other on the caller's stack.  A *)
(* callback may return at once or make the CodeAnalyzer emit another event *)
(* before it returns.  Callbacks are named by their place in `listeners`.  *)
(***************************************************************************)
EventTypes == {"LogEvent", "EngineProgressEvent"}

\* the callbacks emit calls for every event, whatever its type
listenersFor_AnyType(type, registered) == [i \in 1..Len(registered) |-> i]

\* the callbacks eventEmitter.emit(type, event) calls: those registered
\* under the type, in the order of their registration
listenersFor(type, registered) ==
    LET IsForType(i) == registered[i].type = type
    IN SelectSeq([i \in 1..Len(registered) |-> i], IsForType)

\* the frame of an emit call that begins: the event, the callbacks
\* registered when it began, those it will call and has called, the number
\* of nested emits its callbacks made and the emit whose callback made it
emitFrame(type, id) ==
    [type |-> type, id |-> id, registered |-> listeners,
     targets |-> listenersFor(type, listeners), invoked |-> << >>, nested |-> 0,
     parent |-> IF emitStack = << >> THEN 0 ELSE emitStack[Len(emitStack)].id]

\* number of emit calls begun so far
EmitCount == Len(emitLog) + Len(emitStack)

\* onEvent(eventType, callback), called while nothing is being emitted
OnEvent ==
    /\ emitStack = << >>
    /\ Len(listeners) < MaxListeners
    /\ \E type \in EventTypes : listeners' = Append(listeners, [type |-> type])
    /\ UNCHANGED <<analyzerVars, optVars, rxVars, wsVars, emitStack, emitLog, eslVars>>

\* emitEvent(event), called by the CodeAnalyzer while nothing is being
\* emitted: emit begins
EmitEvent ==
    /\ emitStack = << >>
    /\ EmitCount < MaxEmits
    /\ \E type \in EventTypes : emitStack' = <<emitFrame(type, EmitCount + 1)>>
    /\ UNCHANGED <<analyzerVars, optVars, rxVars, wsVars, listeners, emitLog, eslVars>>

\* the innermost emit calls its next callback, which returns at once
ListenerReturns ==
    /\ emitStack # << >>
    /\ LET top == emitStack[Len(emitStack)] IN
       /\ Len(top.invoked) < Len(top.targets)
       /\ emitStack' = [emitStack EXCEPT ![Len(emitStack)].invoked =
                            Append(top.invoked, top.targets[Len(top.invoked) + 1])]
    /\ UNCHANGED <<analyzerVars, optVars, rxVars, wsVars, listeners, emitLog, eslVars>>

\* the innermost emit calls its next callback, which makes the CodeAnalyzer
\* emit an event: a nested emit begins
ListenerEmits ==
    /\ emitStack # << >>
    /\ EmitCount < MaxEmits
    /\ LET top == emitStack[Len(emitStack)] IN
       /\ Len(top.invoked) < Len(top.targets)
       /\ \E type \in EventTypes :
             emitStack' = Append(
                 [emitStack EXCEPT
                     ![Len(emitStack)].invoked =
                         Append(top.invoked, top.targets[Len(top.invoked) + 1]),
                     ![Len(emitStack)].nested = top.nested + 1],
                 emitFrame(type, EmitCount + 1))
    /\ UNCHANGED <<analyzerVars, optVars, rxVars, wsVars, listeners, emitLog, eslVars>>

\* the innermost emit has called its callbacks and returns
EmitReturns ==
    /\ emitStack # << >>
    /\ LET top == emitStack[Len(emitStack)] IN
       /\ Len(top.invoked) = Len(top.targets)
       /\ emitLog' = Append(emitLog, [type |-> top.type, id |-> top.id,
                                      registered |-> top.registered,
                                      invoked |-> top.invoked,
                                      nested |-> top.nested,
                                      parent |-> top.parent])
       /\ emitStack' = SubSeq(emitStack, 1, Len(emitStack) - 1)
    /\ UNCHANGED <<analyzerVars, optVars, rxVars, wsVars, listeners, eslVars>>

InitEvents ==
    /\ ValIdle
    /\ RunIdle
    /\ CoreEmpty
    /\ RegIdle
    /\ SelIdle
    /\ OptIdle
    /\ RxIdle
    /\ WsIdle
    /\ EslIdle
    /\ ruleSelection = EmptySelection
    /\ BusIdle

NextEvents ==
    \/ OnEvent
    \/ EmitEvent
    \/ ListenerReturns
    \/ ListenerEmits
    \/ EmitReturns

SpecEvents == InitEvents /\ [][NextEvents]_vars

(***************************************************************************)
(* Properties of the event emitter (checked under SpecEvents)              *)
(***************************************************************************)
\* how many times the emit called the callback
TimesInvoked(entry, callback) ==
    Cardinality({k \in 1..Len(entry.invoked) : entry.invoked[k] = callback})

\* C26: when an emit returns, every callback registered by onEvent under the
\* event's type has been called exactly once, in the order of registration,
\* and no callback registered under another type has been called; so it is
\* too for an emit in the course of which a callback made a nested emit, and
\* for the nested emit, which has returned before the emit that encloses it.
C26_EmitCallsListenersOfTypeInOrder ==
    /\ \A e \in 1..Len(emitLog) :
          LET entry == emitLog[e] IN
          /\ \A callback \in 1..Len(entry.registered) :
                TimesInvoked(entry, callback) =
                    IF entry.registered[callback].type = entry.type THEN 1 ELSE 0
          /\ \A k \in 1..(Len(entry.invoked) - 1) :
                entry.invoked[k] < entry.invoked[k + 1]
    /\ \A e \in 1..Len(emitLog) :
          emitLog[e].parent # 0 =>
              /\ \A f \in 1..e : emitLog[f].id # emitLog[e].parent
              /\ \/ \E f \in (e + 1)..Len(emitLog) : emitLog[f].id = emitLog[e].parent
                 \/ \E k \in 1..Len(emitStack) : emitStack[k].id = emitLog[e].parent

C26_Witness ==
    \E e \in 1..Len(emitLog), f \in 1..Len(emitLog) :
        /\ e < f
        /\ emitLog[f].parent = 0 /\ emitLog[f].nested >= 1
        /\ Len(emitLog[f].invoked) >= 2
        /\ emitLog[e].parent = emitLog[f].id /\ emitLog[e].invoked # << >>
        /\ \E callback \in 1..Len(emitLog[f].registered) :
              emitLog[f].registered[callback].type # emitLog[f].type

(***************************************************************************)
(* The ESLint engine: LegacyESLintStrategy.calculateRuleStatusesFor.  The  *)
(* config ESLint calculates for a file gives each rule a status, or does   *)
(* not name the rule ("absent"); a Map is a function of the rule names in  *)
(* which "absent" stands for a key the Map does not have.                  *)
(***************************************************************************)
ESLintRuleStatuses == {"error", "warn", "off"}

\* config["rules"] of one file
FileConfigs == [RuleNames -> ESLintRuleStatuses \cup {"absent"}]

\* a resolution that keeps the status of the file looked at last
resolveStatus_NewWins(existingStatus, newStatus) == newStatus

\* the status set for a rule the map has already, given the status of the
\* next config
resolveStatus(existingStatus, newStatus) ==
    IF existingStatus = "error" \/ newStatus = "error" THEN "error"
    ELSE IF existingStatus = "warn" \/ newStatus = "warn" THEN "warn"
    ELSE "off"

\* the loop over configs from the i-th config on, given the map so far
RECURSIVE ruleStatusesFrom(_, _, _)
ruleStatusesFrom(configs, i, statuses) ==
    IF i > Len(configs) THEN statuses
    ELSE ruleStatusesFrom(configs, i + 1,
             [r \in RuleNames |->
                 IF configs[i][r] = "absent" THEN statuses[r]
                 ELSE IF statuses[r] = "absent" THEN configs[i][r]
                 ELSE resolveStatus(statuses[r], configs[i][r])])

\* calculateRuleStatusesFor(filesToScan, legacyESLint), configs being what
\* calculateConfigForFile resolves to for the files, in the files' order
calculateRuleStatusesFor(configs) ==
    ruleStatusesFrom(configs, 1, [r \in RuleNames |-> "absent"])

\* the configs of the files to scan: at most MaxEslintFiles files
SampleConfigLists == UNION {[1..n -> FileConfigs] : n \in 0..MaxEslintFiles}

\* calculateRuleStatusesFor is called and returns its map
CalculateRuleStatusesFor ==
    /\ ~ruleStatuses.done
    /\ ruleStatuses' = [done |-> TRUE, statuses |-> calculateRuleStatusesFor(fileConfigs)]
    /\ UNCHANGED <<analyzerVars, optVars, rxVars, wsVars, busVars, fileConfigs>>

InitEslint ==
    /\ ValIdle
    /\ RunIdle
    /\ CoreEmpty
    /\ RegIdle
    /\ SelIdle
    /\ OptIdle
    /\ RxIdle
    /\ WsIdle
    /\ BusIdle
    /\ ruleSelection = EmptySelection
    /\ fileConfigs \in SampleConfigLists
    /\ ruleStatuses = NotCalculated

NextEslint == CalculateRuleStatusesFor

SpecEslint == InitEslint /\ [][NextEslint]_vars

(***************************************************************************)
(* Properties of the rule statuses (checked under SpecEslint)              *)
(***************************************************************************)
\* some file's config marks the rule with the status
SomeFileMarks(r, status) ==
    \E i \in 1..Len(fileConfigs) : fileConfigs[i][r] = status

\* the orderings of the file list
FileOrders ==
    {p \in [1..Len(fileConfigs) -> 1..Len(fileConfigs)] :
        \A i, j \in 1..Len(fileConfigs) : p[i] = p[j] => i = j}

\* C30: the status a rule is resolved to is "error" if some file's config
\* marks it "error", otherwise "warn" if some file marks it "warn",
\* otherwise "off" (a rule no config names is not in the map); and the map
\* is the same for every ordering of the file list.
C30_StatusIsTheStrictestOverFiles ==
    ruleStatuses.done =>
        /\ \A r \in RuleNames :
              ruleStatuses.statuses[r] =
                  IF SomeFileMarks(r, "error") THEN "error"
                  ELSE IF SomeFileMarks(r, "warn") THEN "warn"
                  ELSE IF SomeFileMarks(r, "off") THEN "off"
                  ELSE "absent"
        /\ \A p \in FileOrders :
              calculateRuleStatusesFor([i \in 1..Len(fileConfigs) |-> fileConfigs[p[i]]])
                  = ruleStatuses.statuses

C30_Witness ==
    /\ ruleStatuses.done
    /\ Len(fileConfigs) = 3
    /\ fileConfigs[1]["r1"] = "error" /\ fileConfigs[2]["r1"] = "warn"
    /\ fileConfigs[3]["r1"] = "off"
    /\ fileConfigs[1]["r2"] = "absent" /\ fileConfigs[2]["r2"] = "warn"
    /\ fileConfigs[3]["r2"] = "off"
    /\ ruleStatuses.statuses = [r \in RuleNames |-> IF r = "r1" THEN "error" ELSE "warn"]

====
